---- MODULE Spec2Model ----
(***************************************************************************)
(* A model of the vacancy utility: the Salary / Vacancy value objects      *)
(* (src/src/api/vacancy.py) and the JSON-file storage                      *)
(* (src/src/storage.py).                                                   *)
(*                                                                         *)
(* Python values are modelled as follows.                                  *)
(*   - Optional[x]: None is the empty tuple, a present value x is <<x>>.   *)
(*   - str used for text search: a sequence of one-character strings, so   *)
(*     that lower() and the substring test are computed, not assumed.      *)
(*   - datetime: a record [sec, usec]; its ISO text is a token sequence.   *)
(*   - the storage file: a record [kind, data]; kind says what the bytes   *)
(*     on disk are (a JSON array, text that is not JSON, bytes that are    *)
(*     not UTF-8, or no file) and data is the parsed array.                *)
(*   - a call: a record of the operation, its arguments, what the file     *)
(*     system did to its read and its write, the exception that left the   *)
(*     call ("none" when it returned) and the value returned.              *)
(***************************************************************************)
EXTENDS Integers, Sequences, FiniteSets, TLC

VARIABLES
    file,   \* the storage file of JSONVacancyStorage.file_path
    call,   \* the call just made: operation, arguments, exception, result
    hist,   \* history of the calls made (what was added, in which order)
    api     \* the HeadHunterAPI object: _is_connected, _last_request_time

vars == <<file, call, hist, api>>

----------------------------------------------------------------------------
(* Bounds of the model *)

MaxIds == 2        \* number of distinct vacancy ids
MaxAmount == 3     \* salary bounds and range limits are drawn from 0..MaxAmount
MaxTextLen == 3    \* total length of title + description + requirements
MaxKwLen == 2      \* total length of all keywords of a keyword list
MaxKeywords == 2   \* number of keywords of a keyword list

----------------------------------------------------------------------------
(* Python values *)

None == <<>>
Some(x) == <<x>>

\* Python truthiness of an Optional[int]: None and 0 are falsy.
Truthy(o) == o # None /\ o[1] # 0

Chars == {"a", "A", "b"}

\* str.lower() on one character
LowerChar(c) == CASE c = "A" -> "a" [] c = "B" -> "b" [] OTHER -> c

\* str.lower()
Lower(s) == [i \in 1..Len(s) |-> LowerChar(s[i])]

\* Python's `k in s` on strings: k occurs in s as a contiguous substring.
StrIn(k, s) ==
    \E i \in 0..(Len(s) - Len(k)) : \A j \in 1..Len(k) : s[i + j] = k[j]

\* datetime.isoformat(): the microsecond part is written only when non-zero.
isoformat(dt) ==
    IF dt.usec = 0 THEN <<"sec", dt.sec>> ELSE <<"sec", dt.sec, "usec", dt.usec>>

\* datetime.fromisoformat(): a missing microsecond part reads as zero.
fromisoformat(s) ==
    [sec |-> s[2], usec |-> IF Len(s) = 4 THEN s[4] ELSE 0]

\* HeadHunterAPI.__init__ / JobAPIBase.__init__: the state of a new client
HeadHunterAPI == [is_connected |-> FALSE, last_request_time |-> None]

----------------------------------------------------------------------------
(* Salary and Vacancy *)

\* Mutant: __post_init__ leaves the currency as passed.
Salary_keeps_currency(min_value, max_value, currency, gross) ==
    IF min_value = None /\ max_value = None
    THEN [min_value |-> Some(0), max_value |-> Some(0),
          currency |-> currency, gross |-> gross]
    ELSE [min_value |-> min_value, max_value |-> max_value,
          currency |-> currency, gross |-> gross]

\* The dataclass constructor followed by __post_init__.
Salary(min_value, max_value, currency, gross) ==
    IF min_value = None /\ max_value = None
    THEN [min_value |-> Some(0), max_value |-> Some(0),
          currency |-> "RUR", gross |-> gross]
    ELSE [min_value |-> min_value, max_value |-> max_value,
          currency |-> currency, gross |-> gross]

\* dict.get(key, default): a dict is a record of the keys it has
DictGet(d, key, default) == IF key \in DOMAIN d THEN d[key] ELSE default

\* Vacancy._validate_salary: arg is [type |-> "Salary", value |-> s],
\* [type |-> "dict", value |-> d] with d a record of some of the keys from,
\* to, currency and gross, or a value of another type such as [type |-> "None"].
_validate_salary(arg) ==
    CASE arg.type = "Salary" -> arg.value
      [] arg.type = "dict" ->
            Salary(DictGet(arg.value, "from", None), DictGet(arg.value, "to", None),
                   DictGet(arg.value, "currency", "RUR"), DictGet(arg.value, "gross", FALSE))
      [] OTHER -> Salary(None, None, "RUR", FALSE)

\* Vacancy.__init__; created_at is Optional, now is datetime.now().
Vacancy(vacancy_id, title, salary, description, company_name, url, requirements, experience, employment, created_at, now) ==
    [id |-> vacancy_id,
     title |-> title,
     salary |-> _validate_salary(salary),
     description |-> description,
     company_name |-> company_name,
     url |-> url,
     requirements |-> requirements,
     experience |-> experience,
     employment |-> employment,
     created_at |-> IF created_at # None THEN created_at[1] ELSE now]

\* Salary.in_range: [raised, ret]. A comparison of an int with None raises
\* TypeError; the chained comparison of the last line evaluates
\* min_salary <= self.max_value first.
in_range(self, min_salary, max_salary) ==
    LET Within(o) == min_salary <= o[1] /\ o[1] <= max_salary
    IN  IF self.min_value = Some(0) /\ self.max_value = Some(0)
        THEN [raised |-> "none", ret |-> Some(FALSE)]
        ELSE IF Truthy(self.min_value) /\ Truthy(self.max_value)
        THEN [raised |-> "none", ret |-> Some(Within(self.min_value) \/ Within(self.max_value))]
        ELSE IF Truthy(self.min_value)
        THEN [raised |-> "none", ret |-> Some(Within(self.min_value))]
        ELSE IF self.max_value = None
        THEN [raised |-> "TypeError", ret |-> None]
        ELSE [raised |-> "none", ret |-> Some(Within(self.max_value))]

\* Mutant: the title is not searched.
contains_keywords_no_title(self, keywords) ==
    \A i \in 1..Len(keywords) :
        \/ StrIn(Lower(keywords[i]), Lower(self.description))
        \/ StrIn(Lower(keywords[i]), Lower(self.requirements))

\* Vacancy.contains_keywords
contains_keywords(self, keywords) ==
    \A i \in 1..Len(keywords) :
        \/ StrIn(Lower(keywords[i]), Lower(self.description))
        \/ StrIn(Lower(keywords[i]), Lower(self.requirements))
        \/ StrIn(Lower(keywords[i]), Lower(self.title))

----------------------------------------------------------------------------
(* JSONVacancyStorage: the file and its two I/O primitives *)

\* What the environment does to one read of the file.
ReadIO == {"ok", "OSError"}

\* What the environment does to one write of the file:
\*   open_error   open('w') raises OSError, the file is untouched;
\*   short_write  OSError after open('w') truncated the file: the file holds a
\*                proper prefix of the JSON text, cut between two characters;
\*   split_write  as short_write, cut inside a multi-byte UTF-8 character.
WriteIO == {"ok", "open_error", "short_write", "split_write"}

JsonFile(data) == [kind |-> "json", data |-> data]

\* The exceptions the try block of _read_file converts to an empty list.
ReadCaught == {"JSONDecodeError", "OSError"}

\* The body of the try block of _read_file: what it raises and returns.
ReadAttempt(f, io) ==
    CASE io = "OSError"       -> [raised |-> "OSError", data |-> <<>>]
      [] f.kind = "absent"    -> [raised |-> "none", data |-> <<>>]
      [] f.kind = "json"      -> [raised |-> "none", data |-> f.data]
      [] f.kind = "not_json"  -> [raised |-> "JSONDecodeError", data |-> <<>>]
      [] OTHER                -> [raised |-> "UnicodeDecodeError", data |-> <<>>]

\* Mutant: a read that fails with OSError is tried again and succeeds.
_read_file_retried(f, io) ==
    LET r == ReadAttempt(f, "ok")
    IN  IF r.raised \in ReadCaught THEN [raised |-> "none", data |-> <<>>] ELSE r

_read_file(f, io) ==
    LET r == ReadAttempt(f, io)
    IN  IF r.raised \in ReadCaught THEN [raised |-> "none", data |-> <<>>] ELSE r

\* The body of the try block of _write_file: the file it leaves and what it raises.
WriteAttempt(f, data, io) ==
    CASE io = "ok"          -> [raised |-> "none", file |-> JsonFile(data)]
      [] io = "open_error"  -> [raised |-> "OSError", file |-> f]
      [] io = "split_write" /\ data # <<>> ->
                               [raised |-> "OSError", file |-> [kind |-> "not_utf8", data |-> <<>>]]
      [] OTHER              -> [raised |-> "OSError", file |-> [kind |-> "not_json", data |-> <<>>]]

\* Mutant: the OSError of a failed write is not caught.
_write_file_uncaught(f, data, io) == WriteAttempt(f, data, io)

_write_file(f, data, io) ==
    LET w == WriteAttempt(f, data, io)
    IN  IF w.raised = "OSError" THEN [raised |-> "none", file |-> w.file] ELSE w

\* The dictionary add_vacancy builds from a Vacancy (a datetime is always truthy).
vacancy_dict(vacancy) ==
    [id |-> vacancy.id,
     title |-> vacancy.title,
     salary |-> [min_value |-> vacancy.salary.min_value,
                 max_value |-> vacancy.salary.max_value,
                 currency |-> vacancy.salary.currency,
                 gross |-> vacancy.salary.gross],
     description |-> vacancy.description,
     company_name |-> vacancy.company_name,
     url |-> vacancy.url,
     requirements |-> vacancy.requirements,
     experience |-> vacancy.experience,
     employment |-> vacancy.employment,
     created_at |-> Some(isoformat(vacancy.created_at))]

\* Mutant: a stored bound of 0 is read back as absent (`value or None`).
_dict_to_vacancy_falsy_bounds(d, now) ==
    LET salary == Salary(IF Truthy(d.salary.min_value) THEN d.salary.min_value ELSE None,
                         IF Truthy(d.salary.max_value) THEN d.salary.max_value ELSE None,
                         d.salary.currency, d.salary.gross)
    IN  Vacancy(d.id, d.title, [type |-> "Salary", value |-> salary],
                d.description, d.company_name, d.url, d.requirements,
                d.experience, d.employment,
                IF d.created_at # None THEN Some(fromisoformat(d.created_at[1])) ELSE None,
                now)

_dict_to_vacancy(d, now) ==
    LET salary == Salary(d.salary.min_value, d.salary.max_value,
                         d.salary.currency, d.salary.gross)
    IN  Vacancy(d.id, d.title, [type |-> "Salary", value |-> salary],
                d.description, d.company_name, d.url, d.requirements,
                d.experience, d.employment,
                IF d.created_at # None THEN Some(fromisoformat(d.created_at[1])) ELSE None,
                now)

\* Mutant: the loop never matches, every record is appended.
AddOrUpdate_always_append(vacancies, d) == Append(vacancies, d)

\* Mutant: a record whose id is stored already is left as it is.
AddOrUpdate_keep_first(vacancies, d) ==
    IF \E i \in 1..Len(vacancies) : vacancies[i].id = d.id
    THEN vacancies
    ELSE Append(vacancies, d)

\* Mutant: the stored record is deleted and the new one appended at the end.
AddOrUpdate_move_to_end(vacancies, d) ==
    Append(SelectSeq(vacancies, LAMBDA v : v.id # d.id), d)

\* The for/else loop of add_vacancy: replace the first record with the id, or append.
AddOrUpdate(vacancies, d) ==
    IF \E i \in 1..Len(vacancies) : vacancies[i].id = d.id
    THEN LET i == CHOOSE k \in 1..Len(vacancies) :
                      /\ vacancies[k].id = d.id
                      /\ \A m \in 1..(k - 1) : vacancies[m].id # d.id
         IN  [vacancies EXCEPT ![i] = d]
    ELSE Append(vacancies, d)

\* Mutant: the comparison of the comprehension is inverted.
WithoutId_inverted(vacancies, vacancy_id) ==
    SelectSeq(vacancies, LAMBDA v : v.id = vacancy_id)

\* The comprehension of remove_vacancy.
WithoutId(vacancies, vacancy_id) ==
    SelectSeq(vacancies, LAMBDA v : v.id # vacancy_id)

\* Mutant: the stored title and description are not lower-cased.
KeywordMatches_case_sensitive(keyword, d) ==
    \/ keyword = None
    \/ StrIn(Lower(keyword[1]), d.title)
    \/ StrIn(Lower(keyword[1]), d.description)

\* The condition of the loop of get_vacancies; keyword is Optional[str].
KeywordMatches(keyword, d) ==
    \/ keyword = None
    \/ StrIn(Lower(keyword[1]), Lower(d.title))
    \/ StrIn(Lower(keyword[1]), Lower(d.description))

\* The loop of get_vacancies over the records read.
Matching(vacancies, keyword, now) ==
    LET kept == SelectSeq(vacancies, LAMBDA d : KeywordMatches(keyword, d))
    IN  [i \in 1..Len(kept) |-> _dict_to_vacancy(kept[i], now)]

Call(op, args, read_io, write_io, raised, ret) ==
    [op |-> op, args |-> args, read_io |-> read_io, write_io |-> write_io,
     raised |-> raised, ret |-> ret]

add_vacancy(vacancy, rio, wio) ==
    LET r == _read_file(file, rio)
        w == _write_file(file, AddOrUpdate(r.data, vacancy_dict(vacancy)), wio)
    IN  IF r.raised # "none"
        THEN /\ file' = file
             /\ call' = Call("add_vacancy", [vacancy |-> vacancy], rio, "none", r.raised, None)
        ELSE /\ file' = w.file
             /\ call' = Call("add_vacancy", [vacancy |-> vacancy], rio, wio, w.raised, None)

get_vacancies(keyword, rio, now) ==
    LET r == _read_file(file, rio)
    IN  /\ file' = file
        /\ call' = IF r.raised # "none"
                   THEN Call("get_vacancies", [keyword |-> keyword], rio, "none", r.raised, None)
                   ELSE Call("get_vacancies", [keyword |-> keyword], rio, "none", "none",
                             Some(Matching(r.data, keyword, now)))

remove_vacancy(vacancy_id, rio, wio) ==
    LET r == _read_file(file, rio)
        w == _write_file(file, WithoutId(r.data, vacancy_id), wio)
    IN  IF r.raised # "none"
        THEN /\ file' = file
             /\ call' = Call("remove_vacancy", [vacancy_id |-> vacancy_id], rio, "none", r.raised, None)
        ELSE /\ file' = w.file
             /\ call' = Call("remove_vacancy", [vacancy_id |-> vacancy_id], rio, wio, w.raised, None)

clear(wio) ==
    LET w == _write_file(file, <<>>, wio)
    IN  /\ file' = w.file
        /\ call' = Call("clear", <<>>, "none", wio, w.raised, None)

----------------------------------------------------------------------------
(* Inputs of the storage operations *)

IdNames == <<"a", "b", "c", "d">>
Ids == {IdNames[i] : i \in 1..MaxIds}

\* Constructor arguments of the vacancies handed to the storage: a salary with
\* both bounds, one with both bounds absent (and no creation time), one with
\* one bound absent, one with a bound equal to 0.
Profiles ==
    { [title |-> <<"A", "b">>, description |-> <<"b", "a">>, requirements |-> <<"a">>,
       salary |-> [type |-> "dict", value |-> [from |-> Some(1), to |-> Some(3), currency |-> "USD", gross |-> TRUE]],
       company_name |-> "c1", url |-> "u1", experience |-> "x1", employment |-> "e1",
       created_at |-> Some([sec |-> 1, usec |-> 0])],
      [title |-> <<"b">>, description |-> <<>>, requirements |-> <<>>,
       salary |-> [type |-> "dict", value |-> [from |-> None, to |-> None, currency |-> "USD", gross |-> TRUE]],
       company_name |-> "c2", url |-> "u2", experience |-> "x2", employment |-> "e2",
       created_at |-> None],
      [title |-> <<"a">>, description |-> <<"B">>, requirements |-> <<"b">>,
       salary |-> [type |-> "Salary", value |-> Salary(None, Some(3), "EUR", FALSE)],
       company_name |-> "c3", url |-> "u3", experience |-> "x3", employment |-> "e3",
       created_at |-> Some([sec |-> 2, usec |-> 5])],
      [title |-> <<"a", "A">>, description |-> <<"a">>, requirements |-> <<>>,
       salary |-> [type |-> "dict", value |-> [from |-> Some(0), to |-> Some(3), currency |-> "RUR", gross |-> FALSE]],
       company_name |-> "c4", url |-> "u4", experience |-> "x4", employment |-> "e4",
       created_at |-> Some([sec |-> 2, usec |-> 5])] }

\* datetime.now() at the construction of the vacancies handed to the storage
ConstructedAt == [sec |-> 3, usec |-> 7]

\* datetime.now() when get_vacancies rebuilds the vacancies
ReadAt == [sec |-> 9, usec |-> 0]

Vacancies ==
    { Vacancy(id, p.title, p.salary, p.description, p.company_name, p.url,
              p.requirements, p.experience, p.employment, p.created_at, ConstructedAt) :
        id \in Ids, p \in Profiles }

Keywords == {None, Some(<<>>), Some(<<"B">>), Some(<<"a", "B">>)}

----------------------------------------------------------------------------
(* History of the calls, kept beside the program's state to state the claims:
   latest[id] is the vacancy of the last add_vacancy(id) not followed by a
   remove_vacancy(id) or a clear; order lists the ids in the order of their
   first add_vacancy since they were last absent; last is the last call that
   wrote the file: its operation, its id and what it found ("replaced": a
   record of the id holding a different vacancy, "rewritten": the same one). *)

NoHistory ==
    [latest |-> [id \in Ids |-> None], order |-> <<>>,
     last |-> [op |-> "__init__", id |-> "none", effect |-> "created"]]

AfterAdd(h, vacancy) ==
    [latest |-> [h.latest EXCEPT ![vacancy.id] = Some(vacancy)],
     order |-> IF h.latest[vacancy.id] = None THEN Append(h.order, vacancy.id) ELSE h.order,
     last |-> [op |-> "add_vacancy", id |-> vacancy.id,
               effect |-> CASE h.latest[vacancy.id] = None -> "appended"
                            [] h.latest[vacancy.id] = Some(vacancy) -> "rewritten"
                            [] OTHER -> "replaced"]]

AfterRemove(h, vacancy_id) ==
    [latest |-> [h.latest EXCEPT ![vacancy_id] = None],
     order |-> SelectSeq(h.order, LAMBDA id : id # vacancy_id),
     last |-> [op |-> "remove_vacancy", id |-> vacancy_id,
               effect |-> IF h.latest[vacancy_id] = None THEN "not_found" ELSE "removed"]]

AfterClear(h) ==
    [latest |-> [id \in Ids |-> None], order |-> <<>>,
     last |-> [op |-> "clear", id |-> "none", effect |-> "cleared"]]

----------------------------------------------------------------------------
(* The storage used by a single caller, every read and write succeeding *)

Init ==
    /\ file = JsonFile(<<>>)
    /\ call = Call("__init__", <<>>, "none", "ok", "none", None)
    /\ hist = NoHistory
    /\ api = HeadHunterAPI

AddStep ==
    \E v \in Vacancies : add_vacancy(v, "ok", "ok") /\ hist' = AfterAdd(hist, v) /\ UNCHANGED api

GetStep ==
    \E k \in Keywords : get_vacancies(k, "ok", ReadAt) /\ UNCHANGED hist /\ UNCHANGED api

RemoveStep ==
    \E id \in Ids : remove_vacancy(id, "ok", "ok") /\ hist' = AfterRemove(hist, id) /\ UNCHANGED api

ClearStep ==
    clear("ok") /\ hist' = AfterClear(hist) /\ UNCHANGED api

Next == AddStep \/ GetStep \/ RemoveStep \/ ClearStep

Spec == Init /\ [][Next]_vars

----------------------------------------------------------------------------
(* The storage used by a single caller on a file system whose reads and writes
   may fail *)

\* The inputs of the faulty runs: two of the vacancies per id, two keywords.
FaultVacancies == {v \in Vacancies : v.company_name \in {"c1", "c3"}}
FaultKeywords == {None, Some(<<"B">>)}

AddFaulty ==
    \E v \in FaultVacancies, rio \in ReadIO, wio \in WriteIO :
        add_vacancy(v, rio, wio) /\ UNCHANGED hist /\ UNCHANGED api

GetFaulty ==
    \E k \in FaultKeywords, rio \in ReadIO :
        get_vacancies(k, rio, ReadAt) /\ UNCHANGED hist /\ UNCHANGED api

RemoveFaulty ==
    \E id \in Ids, rio \in ReadIO, wio \in WriteIO :
        remove_vacancy(id, rio, wio) /\ UNCHANGED hist /\ UNCHANGED api

ClearFaulty ==
    \E wio \in WriteIO : clear(wio) /\ UNCHANGED hist /\ UNCHANGED api

NextFault == AddFaulty \/ GetFaulty \/ RemoveFaulty \/ ClearFaulty

SpecFault == Init /\ [][NextFault]_vars

----------------------------------------------------------------------------
(* Vocabulary of the claims *)

UpperChar(c) == CASE c = "a" -> "A" [] c = "b" -> "B" [] OTHER -> c

\* k is a case-insensitive substring of s
CIContains(k, s) ==
    \E i \in 0..(Len(s) - Len(k)) :
        \A j \in 1..Len(k) : UpperChar(s[i + j]) = UpperChar(k[j])

\* the stored record d holds the fields of the vacancy v
SameRecord(v, d) ==
    /\ v.id = d.id /\ v.title = d.title /\ v.description = d.description
    /\ v.company_name = d.company_name /\ v.url = d.url
    /\ v.requirements = d.requirements /\ v.experience = d.experience
    /\ v.employment = d.employment
    /\ v.salary.min_value = d.salary.min_value /\ v.salary.max_value = d.salary.max_value
    /\ v.salary.currency = d.salary.currency /\ v.salary.gross = d.salary.gross

\* the number of members of S that are at most i
Rank(S, i) == Cardinality({j \in S : j <= i})

FailedWrites == {"open_error", "short_write", "split_write"}

\* the collection a file holds: its array, or nothing when it is not a JSON array
Collection(f) == IF f.kind = "json" THEN f.data ELSE <<>>

----------------------------------------------------------------------------
(* Claims about the storage *)

\* C1: from a fresh storage file, after any sequence of add_vacancy,
\* remove_vacancy and clear calls by one caller, no two records of the
\* persisted array share an id.
C1_UniqueIds ==
    file.kind = "json" =>
        \A i, j \in 1..Len(file.data) : file.data[i].id = file.data[j].id => i = j

\* an add_vacancy of an id stored already has been made on a file of two records
C1_Witness ==
    /\ call.op = "add_vacancy" /\ hist.last.effect \in {"replaced", "rewritten"}
    /\ Len(file.data) = 2
    /\ file.data[2].id = call.args.vacancy.id

\* C2: last write wins: get_vacancies() returns exactly one record for each id
\* added and not later removed or cleared, none for any other id, and that
\* record carries the fields of the most recent add_vacancy of the id.
C2_LastWriteWins ==
    (call.op = "get_vacancies" /\ call.args.keyword = None) =>
        /\ call.raised = "none"
        /\ \A id \in Ids :
              LET ret == call.ret[1]
                  at == {i \in 1..Len(ret) : ret[i].id = id}
              IN  IF hist.latest[id] = None
                  THEN at = {}
                  ELSE /\ Cardinality(at) = 1
                       /\ \A i \in at : ret[i] = hist.latest[id][1]

\* get_vacancies() has returned two records, one of them just overwritten
C2_Witness ==
    /\ call.op = "get_vacancies" /\ call.args.keyword = None
    /\ hist.last.effect = "replaced"
    /\ Len(call.ret[1]) = 2

\* C3: add_vacancy of a stored id replaces the record at its index and leaves
\* the other records and the order unchanged; add_vacancy of a new id appends
\* the record; the persisted order is the order in which the ids present were
\* first added.
C3_AddFrame ==
    [][call'.op = "add_vacancy" =>
        LET old == file.data
            new == file'.data
            v == call'.args.vacancy
            hit == {i \in 1..Len(old) : old[i].id = v.id}
        IN  /\ hit # {} =>
                /\ Len(new) = Len(old)
                /\ \A i \in 1..Len(old) :
                      IF i \in hit THEN SameRecord(v, new[i]) ELSE new[i] = old[i]
            /\ hit = {} =>
                /\ Len(new) = Len(old) + 1
                /\ SubSeq(new, 1, Len(old)) = old
                /\ SameRecord(v, new[Len(new)])
            /\ [i \in 1..Len(new) |-> new[i].id] = hist'.order]_vars

\* the first of two records has been replaced by a different vacancy of its id
C3_Witness ==
    /\ call.op = "add_vacancy" /\ hist.last.effect = "replaced"
    /\ Len(file.data) = 2
    /\ file.data[1].id = call.args.vacancy.id
    /\ hist.order[1] = call.args.vacancy.id

\* C4: round trip: add_vacancy(v) followed by get_vacancies() yields a record
\* equal to v in every field, the salary and created_at included.
C4_RoundTrip ==
    (call.op = "get_vacancies" /\ call.args.keyword = None /\ hist.last.op = "add_vacancy") =>
        /\ call.raised = "none"
        /\ LET v == hist.latest[hist.last.id][1]
               ret == call.ret[1]
           IN  Cardinality({i \in 1..Len(ret) : ret[i] = v}) = 1

\* a vacancy whose salary has a bound equal to 0 has been added and read back
C4_Witness ==
    /\ call.op = "get_vacancies" /\ call.args.keyword = None
    /\ hist.last.op = "add_vacancy"
    /\ hist.latest[hist.last.id][1].salary.min_value = Some(0)
    /\ hist.latest[hist.last.id][1].salary.max_value = Some(3)

\* C5: remove_vacancy(id) leaves no record with the id, keeps the other records
\* unchanged and in their order, and changes nothing when no record has the id.
C5_RemoveFrame ==
    [][call'.op = "remove_vacancy" =>
        LET old == file.data
            new == file'.data
            id == call'.args.vacancy_id
            hit == {i \in 1..Len(old) : old[i].id = id}
        IN  /\ \A j \in 1..Len(new) : new[j].id # id
            /\ IF hit = {}
               THEN new = old
               ELSE \E i \in hit :
                       new = SubSeq(old, 1, i - 1) \o SubSeq(old, i + 1, Len(old))]_vars

\* a stored record has been removed and another one is left
C5_Witness ==
    /\ call.op = "remove_vacancy" /\ hist.last.effect = "removed"
    /\ Len(file.data) = 1

\* C6: get_vacancies(keyword) returns, in stored order, exactly the stored
\* records whose title or description contains the keyword as a
\* case-insensitive substring, all of them when there is no keyword, and does
\* not modify the file.
C6_KeywordFilter ==
    [][call'.op = "get_vacancies" =>
        /\ file' = file
        /\ call'.raised = "none"
        /\ LET k == call'.args.keyword
               ret == call'.ret[1]
               sel == {i \in 1..Len(file.data) :
                          \/ k = None
                          \/ CIContains(k[1], file.data[i].title)
                          \/ CIContains(k[1], file.data[i].description)}
           IN  /\ Len(ret) = Cardinality(sel)
               /\ \A i \in sel : SameRecord(ret[Rank(sel, i)], file.data[i])]_vars

\* one of two stored records has been returned, matched by its description only
C6_Witness ==
    /\ call.op = "get_vacancies" /\ call.args.keyword = Some(<<"B">>)
    /\ Len(file.data) = 2
    /\ Len(call.ret[1]) = 1
    /\ ~CIContains(<<"B">>, call.ret[1][1].title)

\* C7: when reading the storage file fails (corrupt JSON or an I/O error),
\* get_vacancies returns an empty sequence and does not raise.
C7_ReadFailureIsEmpty ==
    (/\ call.op = "get_vacancies"
     /\ \/ call.read_io = "OSError"
        \/ file.kind \in {"not_json", "not_utf8"}) =>
        /\ call.raised = "none"
        /\ call.ret = Some(<<>>)

\* C8 as claimed: when the write of add_vacancy, remove_vacancy or clear fails,
\* the call does not raise and the persisted collection is unchanged.
C8_WriteFailureKeepsFile ==
    [][(call'.op \in {"add_vacancy", "remove_vacancy", "clear"} /\ call'.write_io \in FailedWrites) =>
        /\ call'.raised = "none"
        /\ Collection(file') = Collection(file)]_vars

\* C8 as amended: when the write of add_vacancy, remove_vacancy or clear fails,
\* the call does not raise; the file is unchanged when it could not be opened
\* for writing, and holds no readable collection when the failure came after
\* it was opened.
C8_WriteFailureNoRaise ==
    [][(call'.op \in {"add_vacancy", "remove_vacancy", "clear"} /\ call'.write_io \in FailedWrites) =>
        /\ call'.raised = "none"
        /\ call'.write_io = "open_error" => file' = file
        /\ call'.write_io # "open_error" => file'.kind \in {"not_json", "not_utf8"}]_vars

\* the write of an add_vacancy failed after the file had been opened
C8_Witness ==
    /\ call.op = "add_vacancy" /\ call.write_io = "short_write"
    /\ call.raised = "none"
    /\ file.kind = "not_json"

----------------------------------------------------------------------------
(* Vacancy.contains_keywords applied to every vacancy and keyword list within
   the bounds *)

\* the strings over Chars of length n, and of length at most n
StrsOfLen(n) == [1..n -> Chars]
Strs(n) == UNION {StrsOfLen(k) : k \in 0..n}

\* <<title, description, requirements>>, of total length at most MaxTextLen
SearchedTexts ==
    UNION { {<<t, d, r>> : t \in StrsOfLen(i), d \in StrsOfLen(j), r \in Strs(MaxTextLen - i - j)} :
            i \in 0..MaxTextLen, j \in 0..MaxTextLen }

\* the lists of at most n keywords of total length at most m
RECURSIVE ListsWithin(_, _)
ListsWithin(n, m) ==
    IF n = 0 THEN {<<>>}
    ELSE {<<>>} \cup UNION { {<<k>> \o rest : rest \in ListsWithin(n - 1, m - Len(k))} : k \in Strs(m) }

KeywordLists == ListsWithin(MaxKeywords, MaxKwLen)

SearchedVacancy(t) ==
    Vacancy("a", t[1], [type |-> "None"], t[2], "c1", "u1", t[3], "x1", "e1", None, ConstructedAt)

InitKeywords ==
    /\ file = JsonFile(<<>>)
    /\ hist = NoHistory
    /\ api = HeadHunterAPI
    /\ \E t \in SearchedTexts, ks \in KeywordLists :
          call = Call("contains_keywords", [self |-> SearchedVacancy(t), keywords |-> ks],
                      "none", "none", "pending", None)

ContainsKeywordsStep ==
    /\ call.op = "contains_keywords" /\ call.raised = "pending"
    /\ call' = [call EXCEPT !.raised = "none",
                            !.ret = Some(contains_keywords(call.args.self, call.args.keywords))]
    /\ UNCHANGED <<file, hist, api>>

SpecKeywords == InitKeywords /\ [][ContainsKeywordsStep]_vars

\* C9: contains_keywords(K) is true if and only if every keyword of K is a
\* case-insensitive substring of the title, the description or the
\* requirements; for the empty list it is true.
C9_ContainsKeywords ==
    (call.op = "contains_keywords" /\ call.raised # "pending") =>
        LET v == call.args.self
            K == call.args.keywords
        IN  /\ call.raised = "none"
            /\ call.ret[1] <=>
                  \A i \in 1..Len(K) :
                      \E text \in {v.title, v.description, v.requirements} :
                          CIContains(K[i], text)
            /\ K = <<>> => call.ret[1]

\* two keywords were found, the first in the title only and in another case
C9_Witness ==
    /\ call.op = "contains_keywords" /\ call.raised = "none"
    /\ call.ret = Some(TRUE)
    /\ Len(call.args.keywords) = 2
    /\ ~StrIn(call.args.keywords[1], call.args.self.title)
    /\ CIContains(call.args.keywords[1], call.args.self.title)
    /\ ~CIContains(call.args.keywords[1], call.args.self.description)
    /\ ~CIContains(call.args.keywords[1], call.args.self.requirements)
    /\ Len(call.args.keywords[2]) = 1
    /\ StrIn(call.args.keywords[2], call.args.self.requirements)

----------------------------------------------------------------------------
(* Salary.in_range applied to every salary and range within the bounds *)

Amounts == 0..MaxAmount
OptionalAmounts == {None} \cup {Some(n) : n \in Amounts}

InitInRange ==
    /\ file = JsonFile(<<>>)
    /\ hist = NoHistory
    /\ api = HeadHunterAPI
    /\ \E lo \in OptionalAmounts, hi \in OptionalAmounts, min_salary \in Amounts, max_salary \in Amounts :
          call = Call("in_range",
                      [self |-> Salary(lo, hi, "RUR", FALSE),
                       min_salary |-> min_salary, max_salary |-> max_salary],
                      "none", "none", "pending", None)

InRangeStep ==
    /\ call.op = "in_range" /\ call.raised = "pending"
    /\ LET r == in_range(call.args.self, call.args.min_salary, call.args.max_salary)
       IN  call' = [call EXCEPT !.raised = r.raised, !.ret = r.ret]
    /\ UNCHANGED <<file, hist, api>>

SpecInRange == InitInRange /\ [][InRangeStep]_vars

\* C10: for a salary with both bounds present, other than the 0/0 sentinel,
\* in_range(lo, hi) is true if and only if lo <= min_value <= hi or
\* lo <= max_value <= hi, also when exactly one of the bounds is 0.
C10_InRangeBothBounds ==
    (/\ call.op = "in_range" /\ call.raised # "pending"
     /\ call.args.self.min_value # None /\ call.args.self.max_value # None
     /\ ~(call.args.self.min_value = Some(0) /\ call.args.self.max_value = Some(0))) =>
        LET s == call.args.self
            lo == call.args.min_salary
            hi == call.args.max_salary
        IN  /\ call.raised = "none"
            /\ call.ret[1] <=>
                  \/ lo <= s.min_value[1] /\ s.min_value[1] <= hi
                  \/ lo <= s.max_value[1] /\ s.max_value[1] <= hi

\* C11: in_range returns false for the 0/0 sentinel; for every other salary,
\* also one with only min_value or only max_value present (the present bound
\* may be 0), it returns a boolean that is true if and only if at least one
\* present bound b satisfies min_salary <= b <= max_salary.
C11_InRangeAnyBounds ==
    (call.op = "in_range" /\ call.raised # "pending") =>
        LET s == call.args.self
            lo == call.args.min_salary
            hi == call.args.max_salary
            Present == {b \in {s.min_value, s.max_value} : b # None}
        IN  /\ call.raised = "none"
            /\ call.ret # None
            /\ call.ret[1] <=>
                  /\ ~(s.min_value = Some(0) /\ s.max_value = Some(0))
                  /\ \E b \in Present : lo <= b[1] /\ b[1] <= hi

----------------------------------------------------------------------------
(* Vacancy.salary_in_range: the textual range "MIN-MAX" *)

MaxSpecLen == 4

Digits == {"0", "2"}
DigitValue(c) == IF c = "2" THEN 2 ELSE 0
SpecChars == Digits \cup {" ", "-", "x"}

\* str.replace(" ", "")
replace_spaces(s) == SelectSeq(s, LAMBDA c : c # " ")

\* str.split(sep): the pieces between the separators, empty pieces included
RECURSIVE split(_, _)
split(s, sep) ==
    IF \A i \in 1..Len(s) : s[i] # sep
    THEN <<s>>
    ELSE LET i == CHOOSE k \in 1..Len(s) : s[k] = sep /\ \A j \in 1..(k - 1) : s[j] # sep
         IN  <<SubSeq(s, 1, i - 1)>> \o split(SubSeq(s, i + 1, Len(s)), sep)

RECURSIVE DecimalValue(_)
DecimalValue(s) ==
    IF s = <<>> THEN 0
    ELSE 10 * DecimalValue(SubSeq(s, 1, Len(s) - 1)) + DigitValue(s[Len(s)])

\* int(s) for a str of SpecChars: ValueError unless s is a non-empty run of digits
int(s) ==
    IF Len(s) > 0 /\ \A i \in 1..Len(s) : s[i] \in Digits
    THEN [raised |-> "none", value |-> DecimalValue(s)]
    ELSE [raised |-> "ValueError", value |-> 0]

\* Mutant: only ValueError is caught.
salary_in_range_value_error_only(self, salary_range) ==
    IF salary_range.type # "str"
    THEN [raised |-> "AttributeError", ret |-> None]
    ELSE LET parts == split(replace_spaces(salary_range.value), "-")
         IN  IF Len(parts) # 2 \/ \E i \in 1..Len(parts) : int(parts[i]).raised # "none"
             THEN [raised |-> "none", ret |-> Some(FALSE)]
             ELSE in_range(self.salary, int(parts[1]).value, int(parts[2]).value)

\* Vacancy.salary_in_range: salary_range is [type |-> "str", value |-> chars]
\* or a value of another type, which has no replace attribute. Unpacking
\* other than two parts and int() of a non-number raise ValueError; both
\* ValueError and AttributeError are caught, an exception of in_range is not.
salary_in_range(self, salary_range) ==
    IF salary_range.type # "str"
    THEN [raised |-> "none", ret |-> Some(FALSE)]
    ELSE LET parts == split(replace_spaces(salary_range.value), "-")
         IN  IF Len(parts) # 2 \/ \E i \in 1..Len(parts) : int(parts[i]).raised # "none"
             THEN [raised |-> "none", ret |-> Some(FALSE)]
             ELSE in_range(self.salary, int(parts[1]).value, int(parts[2]).value)

RECURSIVE SpecStrs(_)
SpecStrs(n) ==
    IF n = 0 THEN {<<>>}
    ELSE LET shorter == SpecStrs(n - 1)
         IN  shorter \cup {Append(s, c) : s \in {t \in shorter : Len(t) = n - 1}, c \in SpecChars}

RangeSpecs ==
    {[type |-> "str", value |-> s] : s \in SpecStrs(MaxSpecLen)}
        \cup {[type |-> "NoneType", value |-> <<>>], [type |-> "int", value |-> <<>>]}

InitSalaryRange ==
    /\ file = JsonFile(<<>>)
    /\ hist = NoHistory
    /\ api = HeadHunterAPI
    /\ \E lo \in OptionalAmounts, hi \in OptionalAmounts, salary_range \in RangeSpecs :
          call = Call("salary_in_range",
                      [self |-> [salary |-> Salary(lo, hi, "RUR", FALSE)],
                       salary_range |-> salary_range],
                      "none", "none", "pending", None)

SalaryInRangeStep ==
    /\ call.op = "salary_in_range" /\ call.raised = "pending"
    /\ LET r == salary_in_range(call.args.self, call.args.salary_range)
       IN  call' = [call EXCEPT !.raised = r.raised, !.ret = r.ret]
    /\ UNCHANGED <<file, hist, api>>

SpecSalaryRange == InitSalaryRange /\ [][SalaryInRangeStep]_vars

\* the position of the dash of a well-formed "MIN-MAX" text, 0 for any other
DashOf(t) ==
    LET ok == {i \in 2..(Len(t) - 1) :
                  t[i] = "-" /\ \A j \in (1..Len(t)) \ {i} : t[j] \in Digits}
    IN  IF ok = {} THEN 0 ELSE CHOOSE i \in ok : TRUE

\* C12: salary_in_range returns false and never raises when the range text is
\* malformed (non-numeric parts, no dash, more than one dash, empty, or not a
\* string); for a well-formed "MIN-MAX" text, spaces ignored, its outcome is
\* exactly that of Salary.in_range(MIN, MAX).
C12_SalaryInRange ==
    (call.op = "salary_in_range" /\ call.raised # "pending") =>
        LET r == call.args.salary_range
            t == SelectSeq(r.value, LAMBDA c : c # " ")
            d == IF r.type = "str" THEN DashOf(t) ELSE 0
        IN  IF d = 0
            THEN call.raised = "none" /\ call.ret = Some(FALSE)
            ELSE LET expected == in_range(call.args.self.salary,
                                          DecimalValue(SubSeq(t, 1, d - 1)),
                                          DecimalValue(SubSeq(t, d + 1, Len(t))))
                 IN  call.raised = expected.raised /\ call.ret = expected.ret

\* " 0-2" was parsed, spaces dropped, and found to hold a salary from 2
C12_Witness ==
    /\ call.op = "salary_in_range" /\ call.raised = "none"
    /\ call.args.salary_range.value = <<" ", "0", "-", "2">>
    /\ call.args.self.salary.min_value = Some(2)
    /\ call.args.self.salary.max_value = None
    /\ call.ret = Some(TRUE)

----------------------------------------------------------------------------
(* main.py: sort_vacancies and get_top_vacancies *)

MaxListLen == 4

\* Mutant: the missing min_value counts as 0 and is compared.
Salary__lt___absent_as_zero(self, other) ==
    (IF self.min_value = None THEN 0 ELSE self.min_value[1])
        < (IF other.min_value = None THEN 0 ELSE other.min_value[1])

\* Salary.__lt__
Salary__lt__(self, other) ==
    IF Truthy(self.min_value) /\ Truthy(other.min_value)
    THEN self.min_value[1] < other.min_value[1]
    ELSE FALSE

\* Vacancy.__lt__
Vacancy__lt__(self, other) == Salary__lt__(self.salary, other.salary)

reverse_slice(s) == [i \in 1..Len(s) |-> s[Len(s) + 1 - i]]

\* list.sort, count_run: the length of the run the list starts with and
\* whether it is strictly descending (Len(s) >= 2)
count_run(s) ==
    LET descending == Vacancy__lt__(s[2], s[1])
        n == CHOOSE k \in 2..Len(s) :
                 /\ \A i \in 3..k : Vacancy__lt__(s[i], s[i - 1]) = descending
                 /\ k = Len(s) \/ Vacancy__lt__(s[k + 1], s[k]) # descending
    IN  [n |-> n, descending |-> descending]

\* list.sort, binarysort: the place of pivot in s[l..r-1] by binary search
RECURSIVE bisect(_, _, _, _)
bisect(s, pivot, l, r) ==
    IF l >= r THEN l
    ELSE LET p == l + ((r - l) \div 2)
         IN  IF Vacancy__lt__(pivot, s[p])
             THEN bisect(s, pivot, l, p)
             ELSE bisect(s, pivot, p + 1, r)

\* list.sort, binarysort: s[1..start-1] is sorted; insert the others one by one
RECURSIVE binarysort(_, _)
binarysort(s, start) ==
    IF start > Len(s) THEN s
    ELSE LET l == bisect(s, s[start], 1, start)
             moved == SubSeq(s, 1, l - 1) \o <<s[start]>> \o SubSeq(s, l, start - 1)
                          \o SubSeq(s, start + 1, Len(s))
         IN  binarysort(moved, start + 1)

\* list.sort for a list shorter than 64 elements, which is one run
\* extended by binary insertion
list_sort(s) ==
    IF Len(s) < 2 THEN s
    ELSE LET run == count_run(s)
             head == SubSeq(s, 1, run.n)
             ordered == (IF run.descending THEN reverse_slice(head) ELSE head)
                            \o SubSeq(s, run.n + 1, Len(s))
         IN  binarysort(ordered, run.n + 1)

\* sort_vacancies: sorted(vacancies, reverse=True) reverses the list, sorts
\* it ascending and reverses the result
sort_vacancies(vacancies) == reverse_slice(list_sort(reverse_slice(vacancies)))

\* Mutant: a negative n is taken as 0.
get_top_vacancies_clamped(vacancies, n) ==
    SubSeq(vacancies, 1, IF n < 0 THEN 0 ELSE IF n < Len(vacancies) THEN n ELSE Len(vacancies))

\* get_top_vacancies: vacancies[:n]
get_top_vacancies(vacancies, n) ==
    LET stop == IF n < 0
                THEN (IF Len(vacancies) + n < 0 THEN 0 ELSE Len(vacancies) + n)
                ELSE (IF n < Len(vacancies) THEN n ELSE Len(vacancies))
    IN  SubSeq(vacancies, 1, stop)

RECURSIVE MinValueLists(_)
MinValueLists(n) ==
    IF n = 0 THEN {<<>>}
    ELSE LET shorter == MinValueLists(n - 1)
         IN  shorter \cup {Append(s, m) : s \in {t \in shorter : Len(t) = n - 1},
                                          m \in OptionalAmounts}

\* the vacancy at place i of the input; only id and salary matter to the order
ListedVacancies(mins) ==
    [i \in 1..Len(mins) |-> [id |-> i, salary |-> Salary(mins[i], None, "RUR", FALSE)]]

InitSort ==
    /\ file = JsonFile(<<>>)
    /\ hist = NoHistory
    /\ api = HeadHunterAPI
    /\ \E mins \in MinValueLists(MaxListLen) :
          call = Call("sort_vacancies", [vacancies |-> ListedVacancies(mins)],
                      "none", "none", "pending", None)

SortStep ==
    /\ call.op = "sort_vacancies" /\ call.raised = "pending"
    /\ call' = [call EXCEPT !.raised = "none",
                            !.ret = Some(sort_vacancies(call.args.vacancies))]
    /\ UNCHANGED <<file, hist, api>>

SpecSort == InitSort /\ [][SortStep]_vars

\* C13: sort_vacancies is a stable descending sort by min_value: in the
\* result for any input list, also one that mixes positive min_value with 0
\* or absent ones, of any two vacancies with positive min_value the one with
\* the larger min_value comes first and equal ones keep their input order.
C13_SortDescending ==
    (call.op = "sort_vacancies" /\ call.raised = "none") =>
        LET ret == call.ret[1]
            Min(v) == v.salary.min_value
        IN  \A i \in 1..Len(ret), j \in 1..Len(ret) :
                (i < j /\ Truthy(Min(ret[i])) /\ Truthy(Min(ret[j]))) =>
                    \/ Min(ret[i])[1] > Min(ret[j])[1]
                    \/ Min(ret[i])[1] = Min(ret[j])[1] /\ ret[i].id < ret[j].id

TopCounts == (0 - MaxListLen - 1)..(MaxListLen + 1)

InitTop ==
    /\ file = JsonFile(<<>>)
    /\ hist = NoHistory
    /\ api = HeadHunterAPI
    /\ \E mins \in MinValueLists(MaxListLen), n \in TopCounts :
          call = Call("get_top_vacancies", [vacancies |-> ListedVacancies(mins), n |-> n],
                      "none", "none", "pending", None)

TopStep ==
    /\ call.op = "get_top_vacancies" /\ call.raised = "pending"
    /\ call' = [call EXCEPT !.raised = "none",
                            !.ret = Some(get_top_vacancies(call.args.vacancies, call.args.n))]
    /\ UNCHANGED <<file, hist, api>>

SpecTop == InitTop /\ [][TopStep]_vars

\* C14: get_top_vacancies(list, n) returns the first n elements for
\* 0 <= n <= len(list) (the empty list for n = 0), the whole list for
\* n > len(list), and for a negative n the list without its last |n|
\* elements; it never raises.
C14_TopVacancies ==
    (call.op = "get_top_vacancies" /\ call.raised # "pending") =>
        LET list == call.args.vacancies
            n == call.args.n
            ret == call.ret[1]
        IN  /\ call.raised = "none"
            /\ \A i \in 1..Len(ret) : i <= Len(list) /\ ret[i] = list[i]
            /\ (0 <= n /\ n <= Len(list)) => Len(ret) = n
            /\ n > Len(list) => ret = list
            /\ (n < 0 /\ 0 - n <= Len(list)) => Len(ret) = Len(list) + n
            /\ (n < 0 /\ 0 - n > Len(list)) => ret = <<>>

\* a negative n left a list that is neither empty nor whole
C14_Witness ==
    /\ call.op = "get_top_vacancies" /\ call.raised = "none"
    /\ call.args.n = 0 - 1
    /\ Len(call.args.vacancies) = 3
    /\ Len(call.ret[1]) = 2

----------------------------------------------------------------------------
(* HeadHunterAPI: the remote search client *)

\* APIConfig(timeout=10) of HeadHunterAPI.__init__
config_timeout == 10

\* the cap of the per_page parameter
max_per_page == 100

\* the exceptions derived from requests.RequestException
RequestException ==
    {"ConnectionError", "Timeout", "HTTPError", "requests.JSONDecodeError"}

\* What the network does to one GET is an outcome [exc, status, json_error,
\* body]: exc is the exception of session.get ("none" when a response came),
\* status the status code of the response, body its content and json_error
\* the exception the installed requests raises from response.json() for a
\* body that is not JSON (its own JSONDecodeError, or json.JSONDecodeError
\* in the versions before it had one).
Outcome(exc, status, json_error, body) ==
    [exc |-> exc, status |-> status, json_error |-> json_error, body |-> body]

\* a call of the client: as Call, with the requests it sent
ApiCall(op, args, raised, ret, sent) ==
    [op |-> op, args |-> args, read_io |-> "none", write_io |-> "none",
     raised |-> raised, ret |-> ret, sent |-> sent]

Get(path, params, timeout) == [path |-> path, params |-> params, timeout |-> timeout]

\* Mutant: the status of the response is not looked at.
raise_for_status_ignored(outcome) == outcome.exc

\* session.get followed by response.raise_for_status(): the exception raised
raise_for_status(outcome) ==
    IF outcome.exc # "none" THEN outcome.exc
    ELSE IF outcome.status >= 400 THEN "HTTPError"
    ELSE "none"

\* Mutant: any response counts as connected.
connect_any_response(outcome) ==
    LET ok == outcome.exc = "none"
    IN  /\ api' = [api EXCEPT !.is_connected = ok]
        /\ call' = ApiCall("connect", [outcome |-> outcome], "none", Some(ok),
                           <<Get("/vacancies", None, None)>>)
        /\ hist' = [hist EXCEPT !.last = [op |-> "connect", id |-> "none",
                                          effect |-> IF ok THEN "connected" ELSE "not_connected"]]
        /\ UNCHANGED file

\* HeadHunterAPI.connect; hist.last keeps what the last connect() returned
connect(outcome) ==
    LET ok == outcome.exc = "none" /\ outcome.status = 200
        raised == IF outcome.exc \in RequestException \cup {"none"} THEN "none" ELSE outcome.exc
    IN  /\ api' = [api EXCEPT !.is_connected = IF raised = "none" THEN ok ELSE @]
        /\ call' = ApiCall("connect", [outcome |-> outcome], raised,
                           IF raised = "none" THEN Some(ok) ELSE None,
                           <<Get("/vacancies", None, None)>>)
        /\ hist' = [hist EXCEPT !.last = [op |-> "connect", id |-> "none",
                                          effect |-> IF ok THEN "connected" ELSE "not_connected"]]
        /\ UNCHANGED file

\* JobAPIBase.is_connected
is_connected ==
    /\ call' = ApiCall("is_connected", <<>>, "none", Some(api.is_connected), <<>>)
    /\ UNCHANGED <<file, hist, api>>

\* the empty dict
EmptyDict == [shape |-> "object", keys |-> {}]

\* Mutant: the time of the request is recorded before the status is looked at.
get_vacancy_details_time_first(vacancy_id, outcome, now) ==
    LET exc == raise_for_status(outcome)
        sent == <<Get("/vacancies/{id}", None, None)>>
        args == [vacancy_id |-> vacancy_id, outcome |-> outcome, now |-> now]
    IN  /\ UNCHANGED <<file, hist>>
        /\ api' = [api EXCEPT !.last_request_time = Some(now)]
        /\ IF exc \in RequestException
           THEN call' = ApiCall("get_vacancy_details", args, "none", Some(EmptyDict), sent)
           ELSE IF outcome.body.shape # "not_json"
           THEN call' = ApiCall("get_vacancy_details", args, "none", Some(outcome.body), sent)
           ELSE IF outcome.json_error \in RequestException
           THEN call' = ApiCall("get_vacancy_details", args, "none", Some(EmptyDict), sent)
           ELSE call' = ApiCall("get_vacancy_details", args, outcome.json_error, None, sent)

\* HeadHunterAPI.get_vacancy_details
get_vacancy_details(vacancy_id, outcome, now) ==
    LET exc == raise_for_status(outcome)
        sent == <<Get("/vacancies/{id}", None, None)>>
        args == [vacancy_id |-> vacancy_id, outcome |-> outcome, now |-> now]
        recorded == [api EXCEPT !.last_request_time = Some(now)]
    IN  /\ UNCHANGED <<file, hist>>
        /\ IF exc \in RequestException
           THEN /\ call' = ApiCall("get_vacancy_details", args, "none", Some(EmptyDict), sent)
                /\ UNCHANGED api
           ELSE IF outcome.body.shape # "not_json"
           THEN /\ call' = ApiCall("get_vacancy_details", args, "none", Some(outcome.body), sent)
                /\ api' = recorded
           ELSE IF outcome.json_error \in RequestException
           THEN /\ call' = ApiCall("get_vacancy_details", args, "none", Some(EmptyDict), sent)
                /\ api' = recorded
           ELSE /\ call' = ApiCall("get_vacancy_details", args, outcome.json_error, None, sent)
                /\ api' = recorded

\* Python truthiness of an Optional[str]: of a text kept as its characters,
\* and of an identifier kept whole
TruthyText(o) == o # None /\ Len(o[1]) > 0
TruthyStr(o) == o # None /\ o[1] # ""

\* Mutant: the cities of a region are not looked at.
AreasInOrder_regions_only(areas) ==
    [i \in 1..Len(areas) |-> [name |-> areas[i].name, id |-> areas[i].id]]

\* the regions of the /areas answer and their cities in the order
\* _get_area_id looks at them
RECURSIVE AreasInOrder(_)
AreasInOrder(areas) ==
    IF areas = <<>> THEN <<>>
    ELSE <<[name |-> areas[1].name, id |-> areas[1].id]>> \o areas[1].areas
             \o AreasInOrder(Tail(areas))

\* HeadHunterAPI._get_area_id: [raised, ret, sent]. The body of the answer
\* is [shape, areas]: an array of regions [name, id, areas], name None for a
\* region or city without the "name" key; a JSON object in place of the
\* array is iterated by its keys, and indexing a key with "name" raises
\* TypeError.
_get_area_id(location, outcome) ==
    LET exc == raise_for_status(outcome)
        sent == <<Get("/areas", [text |-> location], None)>>
        flat == AreasInOrder(outcome.body.areas)
        hits == {i \in 1..Len(flat) :
                    \/ flat[i].name = None
                    \/ StrIn(Lower(location), Lower(flat[i].name[1]))}
        first == CHOOSE i \in hits : \A j \in hits : i <= j
    IN  IF exc \in RequestException
        THEN [raised |-> "none", ret |-> None, sent |-> sent]
        ELSE IF outcome.body.shape = "not_json"
        THEN (IF outcome.json_error \in RequestException
              THEN [raised |-> "none", ret |-> None, sent |-> sent]
              ELSE [raised |-> outcome.json_error, ret |-> None, sent |-> sent])
        ELSE IF outcome.body.shape = "object"
        THEN [raised |-> "TypeError", ret |-> None, sent |-> sent]
        ELSE IF hits = {}
        THEN [raised |-> "none", ret |-> None, sent |-> sent]
        ELSE IF flat[first].name = None
        THEN [raised |-> "KeyError", ret |-> None, sent |-> sent]
        ELSE [raised |-> "none", ret |-> Some(flat[first].id), sent |-> sent]

\* str.strip(): spaces at both ends removed
RECURSIVE strip(_)
strip(s) ==
    IF s = <<>> THEN s
    ELSE IF Head(s) = " " THEN strip(Tail(s))
    ELSE IF s[Len(s)] = " " THEN strip(SubSeq(s, 1, Len(s) - 1))
    ELSE s

\* (x or "").lower() of an Optional text
LowerOrEmpty(o) == IF o = None THEN <<>> ELSE Lower(o[1])

\* list[:n]
slice_to(list, n) ==
    LET stop == IF n < 0
                THEN (IF Len(list) + n < 0 THEN 0 ELSE Len(list) + n)
                ELSE (IF n < Len(list) THEN n ELSE Len(list))
    IN  SubSeq(list, 1, stop)

\* One pass of the loop of get_vacancies over an item of the answer: "keep",
\* "drop" (continue) or the exception raised. An item is [id, name,
\* description, snippet, salary, experience]:
\*   snippet    [kind, requirement, responsibility], kind "absent" (no key,
\*              or null), "object" or "str" (a string in place of the object)
\*   salary     [kind, from, to], kind "absent", "empty" ({}), "object" or "str"
\*   experience [kind, id], kind "missing" (no key), "null", "object" or "str"
item_check(vacancy, text, salary_from, salary_to, experience) ==
    LET text_lower == Lower(text)
        name == LowerOrEmpty(vacancy.name)
        description == LowerOrEmpty(vacancy.description)
        snippet == vacancy.snippet
        requirement == IF snippet.kind = "object" THEN LowerOrEmpty(snippet.requirement) ELSE <<>>
        responsibility == IF snippet.kind = "object" THEN LowerOrEmpty(snippet.responsibility) ELSE <<>>
        salary_data == vacancy.salary
        salary_truthy == salary_data.kind \in {"object", "str"}
    IN  IF snippet.kind = "str" THEN "AttributeError"
        ELSE IF /\ ~StrIn(text_lower, name) /\ ~StrIn(text_lower, description)
                /\ ~StrIn(text_lower, requirement) /\ ~StrIn(text_lower, responsibility)
        THEN "drop"
        ELSE IF Truthy(salary_from) /\ salary_truthy /\ salary_data.kind = "str"
        THEN "AttributeError"
        ELSE IF /\ Truthy(salary_from) /\ salary_truthy
                /\ (~Truthy(salary_data.from) \/ salary_data.from[1] < salary_from[1])
        THEN "drop"
        ELSE IF Truthy(salary_to) /\ salary_truthy /\ salary_data.kind = "str"
        THEN "AttributeError"
        ELSE IF /\ Truthy(salary_to) /\ salary_truthy
                /\ (~Truthy(salary_data.to) \/ salary_data.to[1] > salary_to[1])
        THEN "drop"
        ELSE IF TruthyStr(experience) /\ vacancy.experience.kind \in {"null", "str"}
        THEN "AttributeError"
        ELSE IF /\ TruthyStr(experience)
                /\ (vacancy.experience.kind = "missing" \/ vacancy.experience.id # experience)
        THEN "drop"
        ELSE "keep"

\* Mutant: the result is not cut to per_page.
hh_get_vacancies_untruncated(self, args, env) ==
    LET list == env.search.body.items.list
        filtered == SelectSeq(list, LAMBDA v :
                        item_check(v, args.text, args.salary_from, args.salary_to,
                                   args.experience) = "keep")
    IN  [raised |-> "none", ret |-> Some(filtered),
         api |-> [self EXCEPT !.last_request_time = Some(env.now)], sent |-> <<>>]

\* HeadHunterAPI.get_vacancies: [raised, ret, api, sent] for the arguments
\* args and the environment env = [areas, search, now], the outcomes of the
\* GET of /areas and of /vacancies and the time of datetime.now(). The body
\* of the answer is [shape, items]: shape "object", "array" or "not_json",
\* items [kind, list] with kind "missing" (no "items" key), "null" or "list".
hh_get_vacancies(self, args, env) ==
    LET lookup == IF args.area # None
                  THEN [raised |-> "none", ret |-> args.area, sent |-> <<>>]
                  ELSE IF TruthyText(args.location)
                  THEN _get_area_id(args.location[1], env.areas)
                  ELSE [raised |-> "none", ret |-> None, sent |-> <<>>]
        params == [text |-> Some(strip(args.text)),
                   area |-> lookup.ret,
                   salary |-> IF Truthy(args.salary_from) THEN args.salary_from ELSE None,
                   only_with_salary |-> IF Truthy(args.salary_from) \/ Truthy(args.salary_to)
                                        THEN Some("true") ELSE None,
                   experience |-> args.experience,
                   per_page |-> Some(IF args.per_page < max_per_page
                                     THEN args.per_page ELSE max_per_page),
                   page |-> Some(args.page)]
        sent == lookup.sent \o <<Get("/vacancies", params, Some(config_timeout))>>
        exc == raise_for_status(env.search)
        body == env.search.body
        recorded == [self EXCEPT !.last_request_time = Some(env.now)]
        list == body.items.list
        check(v) == item_check(v, args.text, args.salary_from, args.salary_to, args.experience)
        raising == {i \in 1..Len(list) : check(list[i]) \notin {"keep", "drop"}}
        first == CHOOSE i \in raising : \A j \in raising : i <= j
        filtered == SelectSeq(list, LAMBDA v : check(v) = "keep")
    IN  IF lookup.raised # "none"
        THEN [raised |-> lookup.raised, ret |-> None, api |-> self, sent |-> lookup.sent]
        ELSE IF exc \in RequestException
        THEN [raised |-> "none", ret |-> Some(<<>>), api |-> self, sent |-> sent]
        ELSE IF body.shape = "not_json"
        THEN (IF env.search.json_error \in RequestException
              THEN [raised |-> "none", ret |-> Some(<<>>), api |-> recorded, sent |-> sent]
              ELSE [raised |-> env.search.json_error, ret |-> None, api |-> recorded, sent |-> sent])
        ELSE IF body.shape = "array"
        THEN [raised |-> "AttributeError", ret |-> None, api |-> recorded, sent |-> sent]
        ELSE IF body.items.kind = "null"
        THEN [raised |-> "TypeError", ret |-> None, api |-> recorded, sent |-> sent]
        ELSE IF body.items.kind = "missing"
        THEN [raised |-> "none", ret |-> Some(<<>>), api |-> recorded, sent |-> sent]
        ELSE IF raising # {}
        THEN [raised |-> check(list[first]), ret |-> None, api |-> recorded, sent |-> sent]
        ELSE [raised |-> "none", ret |-> Some(slice_to(filtered, args.per_page)),
              api |-> recorded, sent |-> sent]

\* a call of get_vacancies
SearchCall(args, env) ==
    LET r == hh_get_vacancies(api, args, env)
    IN  /\ call' = ApiCall("get_vacancies", [args |-> args, env |-> env], r.raised, r.ret, r.sent)
        /\ api' = r.api
        /\ UNCHANGED <<file, hist>>

----------------------------------------------------------------------------
(* The client used by a single caller against a network that may fail *)

MaxClock == 2

JsonErrors == {"requests.JSONDecodeError", "json.JSONDecodeError"}

Snippet(kind, requirement, responsibility) ==
    [kind |-> kind, requirement |-> requirement, responsibility |-> responsibility]

SalaryData(kind, from, to) == [kind |-> kind, from |-> from, to |-> to]

Experience(kind, id) == [kind |-> kind, id |-> id]

Item(id, name, snippet, salary, experience) ==
    [id |-> id, name |-> name, description |-> None, snippet |-> snippet,
     salary |-> salary, experience |-> experience]

SearchBody(shape, kind, list) == [shape |-> shape, items |-> [kind |-> kind, list |-> list]]

NoSnippet == Snippet("absent", None, None)
NoSalary == SalaryData("absent", None, None)

\* an item that names "Ab", without salary, with experience "e1"
PlainItem == Item("i1", Some(<<"A", "b">>), NoSnippet, NoSalary, Experience("object", Some("e1")))

StatusCodes == {200, 204, 404, 500}

ProbeOutcomes ==
    {Outcome(e, 0, "requests.JSONDecodeError", EmptyDict) : e \in {"ConnectionError", "Timeout"}}
        \cup {Outcome("none", st, "requests.JSONDecodeError", EmptyDict) : st \in StatusCodes}

DetailsOutcomes ==
    {Outcome("ConnectionError", 0, "requests.JSONDecodeError", EmptyDict),
     Outcome("none", 404, "requests.JSONDecodeError", [shape |-> "object", keys |-> {"errors"}]),
     Outcome("none", 200, "requests.JSONDecodeError", [shape |-> "object", keys |-> {"id", "name"}])}
        \cup {Outcome("none", 200, e, [shape |-> "not_json", keys |-> {}]) : e \in JsonErrors}

Regions == <<[name |-> Some(<<"A", "b">>), id |-> 1, areas |-> <<[name |-> Some(<<"b", "a">>), id |-> 2]>>]>>

AreaOutcomes ==
    {Outcome("Timeout", 0, "requests.JSONDecodeError", [shape |-> "array", areas |-> <<>>]),
     Outcome("none", 500, "requests.JSONDecodeError", [shape |-> "array", areas |-> Regions]),
     Outcome("none", 200, "requests.JSONDecodeError", [shape |-> "array", areas |-> Regions]),
     Outcome("none", 200, "requests.JSONDecodeError", [shape |-> "object", areas |-> <<>>])}

FoundBody == SearchBody("object", "list", <<PlainItem>>)

SearchOutcomes ==
    {Outcome("ConnectionError", 0, "requests.JSONDecodeError", FoundBody),
     Outcome("Timeout", 0, "requests.JSONDecodeError", FoundBody),
     Outcome("none", 500, "requests.JSONDecodeError", FoundBody),
     Outcome("none", 200, "requests.JSONDecodeError", FoundBody)}

SearchArgs(text, location, salary_from, salary_to, experience, area, per_page, page) ==
    [text |-> text, location |-> location, salary_from |-> salary_from,
     salary_to |-> salary_to, experience |-> experience, area |-> area,
     per_page |-> per_page, page |-> page]

\* the searches of the caller: a text, with or without a location
CallerSearches ==
    {SearchArgs(<<"a">>, location, None, None, None, None, 100, 0) :
        location \in {None, Some(<<"b">>)}}

\* the times datetime.now() may give: not earlier than the time last recorded
Now == {t \in 1..MaxClock : api.last_request_time = None \/ t >= api.last_request_time[1]}

ConnectStep == \E outcome \in ProbeOutcomes : connect(outcome)

IsConnectedStep == is_connected

DetailsStep ==
    \E outcome \in DetailsOutcomes, now \in Now : get_vacancy_details("1", outcome, now)

SearchStep ==
    \E args \in CallerSearches, areas \in AreaOutcomes, search \in SearchOutcomes, now \in Now :
        SearchCall(args, [areas |-> areas, search |-> search, now |-> now])

NextApi == ConnectStep \/ IsConnectedStep \/ DetailsStep \/ SearchStep

SpecApi == Init /\ [][NextApi]_vars

\* a status code of the 2xx class
SuccessStatus(status) == status \in 200..299

\* the answer of the network was a transport-level failure: no response, or
\* a response with a status that is not a success
TransportFailure(outcome) == outcome.exc # "none" \/ ~SuccessStatus(outcome.status)

\* the call sent a request to the path
SentTo(path) == \E i \in 1..Len(call.sent) : call.sent[i].path = path

\* what the last connect() returned, false when there was none
LastConnect == hist.last.op = "connect" /\ hist.last.effect = "connected"

\* is_connected() is false before the first connect() and afterwards what
\* the last connect() returned
ConnectedAgrees ==
    /\ call.op = "connect" => (call.raised = "none" /\ call.ret[1] = LastConnect)
    /\ api.is_connected = LastConnect
    /\ call.op = "is_connected" => (call.raised = "none" /\ call.ret[1] = LastConnect)

\* C15 as stated: connect() returns true exactly when the probe request was
\* answered with a success status and false, without raising, on any network
\* failure; is_connected() is false before the first connect() and after
\* every connect() equals the value that call returned.
C15_ConnectSuccessStatus ==
    /\ ConnectedAgrees
    /\ call.op = "connect" =>
          LET outcome == call.args.outcome
          IN  call.ret[1] <=> (outcome.exc = "none" /\ SuccessStatus(outcome.status))

\* C15 amended: connect() returns true exactly when the probe request was
\* answered with the status code 200, false for every other status and,
\* without raising, on any network failure; is_connected() is false before
\* the first connect() and after every connect() equals the value that call
\* returned.
C15_ConnectStatus200 ==
    /\ ConnectedAgrees
    /\ call.op = "connect" =>
          LET outcome == call.args.outcome
          IN  call.ret[1] <=> (outcome.exc = "none" /\ outcome.status = 200)

\* is_connected() answered true after a connect() that succeeded and a
\* request made since
C15_Witness ==
    /\ call.op = "is_connected" /\ call.ret = Some(TRUE)
    /\ hist.last.op = "connect"
    /\ api.last_request_time # None

\* C16: on a transport-level failure (connection error, timeout, HTTP status
\* that is not a success) get_vacancies returns the empty list and
\* get_vacancy_details the empty dict; neither propagates the failure, also
\* not that of the lookup of the area.
C16_TransportFailure ==
    /\ (call.op = "get_vacancies" /\ SentTo("/vacancies")
            /\ TransportFailure(call.args.env.search)) =>
          (call.raised = "none" /\ call.ret = Some(<<>>))
    /\ (call.op = "get_vacancies" /\ SentTo("/areas")
            /\ TransportFailure(call.args.env.areas)) =>
          SentTo("/vacancies")
    /\ (call.op = "get_vacancy_details" /\ TransportFailure(call.args.outcome)) =>
          (call.raised = "none" /\ call.ret = Some(EmptyDict))

\* the lookup of the area timed out, the search was answered with 500, and
\* the call returned the empty list
C16_Witness ==
    /\ call.op = "get_vacancies" /\ call.raised = "none" /\ call.ret = Some(<<>>)
    /\ Len(call.sent) = 2
    /\ call.args.env.areas.exc = "Timeout"
    /\ call.args.env.search.exc = "none" /\ call.args.env.search.status = 500

----------------------------------------------------------------------------
(* get_vacancies applied to every search and answer within the bounds *)

MaxItems == 2

\* items of an answer: matching by name, by a snippet field or not at all,
\* with every kind of salary and experience field
SampleItems ==
    {PlainItem,
     Item("i2", Some(<<"A">>), Snippet("object", None, Some(<<"a", "B">>)),
          SalaryData("object", Some(1), Some(3)), Experience("object", Some("e2"))),
     Item("i3", None, Snippet("object", Some(<<"A", "b">>), None),
          SalaryData("object", Some(3), None), Experience("missing", None)),
     Item("i4", Some(<<"A", "b">>), NoSnippet,
          SalaryData("object", None, Some(0)), Experience("object", Some("e1"))),
     Item("i5", Some(<<"A", "b">>), NoSnippet,
          SalaryData("object", None, Some(1)), Experience("object", Some("e1"))),
     Item("i6", Some(<<"A", "b">>), NoSnippet,
          SalaryData("empty", None, None), Experience("object", Some("e1"))),
     Item("i7", Some(<<"A", "b">>), NoSnippet,
          SalaryData("str", None, None), Experience("object", Some("e1"))),
     Item("i8", Some(<<"A", "b">>), NoSnippet, NoSalary, Experience("null", None)),
     Item("i9", Some(<<"A", "b">>), Snippet("str", None, None), NoSalary,
          Experience("object", Some("e1"))),
     Item("i10", Some(<<"b">>), NoSnippet,
          SalaryData("object", Some(3), Some(3)), Experience("object", Some("e1")))}

RECURSIVE ItemLists(_)
ItemLists(n) ==
    IF n = 0 THEN {<<>>}
    ELSE LET shorter == ItemLists(n - 1)
         IN  shorter \cup {Append(s, v) : s \in {t \in shorter : Len(t) = n - 1},
                                          v \in SampleItems}

\* the answers to a search: a list of items, and the malformed ones
SearchAnswers ==
    {Outcome("none", 200, "requests.JSONDecodeError", SearchBody("object", "list", list)) :
        list \in ItemLists(MaxItems)}
    \cup {Outcome("none", 200, "requests.JSONDecodeError", SearchBody("object", kind, <<>>)) :
            kind \in {"missing", "null"}}
    \cup {Outcome("none", 200, "requests.JSONDecodeError", SearchBody("array", "missing", <<>>))}
    \cup {Outcome("none", 200, e, SearchBody("not_json", "missing", <<>>)) : e \in JsonErrors}

Searches ==
    {SearchArgs(text, None, salary_from, salary_to, experience, None, per_page, 0) :
        text \in {<<"a">>, <<"a", "B">>},
        salary_from \in {None, Some(0), Some(2)},
        salary_to \in {None, Some(0), Some(2)},
        experience \in {None, Some("e1")},
        per_page \in 0..MaxItems}

NoAreas == Outcome("none", 200, "requests.JSONDecodeError", [shape |-> "array", areas |-> <<>>])

InitSearch ==
    /\ file = JsonFile(<<>>)
    /\ hist = NoHistory
    /\ api = HeadHunterAPI
    /\ \E args \in Searches, search \in SearchAnswers :
          call = ApiCall("get_vacancies",
                         [args |-> args, env |-> [areas |-> NoAreas, search |-> search, now |-> 1]],
                         "pending", None, <<>>)

SearchPending ==
    /\ call.op = "get_vacancies" /\ call.raised = "pending"
    /\ SearchCall(call.args.args, call.args.env)

SpecSearch == InitSearch /\ [][SearchPending]_vars

\* C17: a malformed answer (a body that is not a JSON object with an items
\* array, or items whose experience, snippet or salary is null or of the
\* wrong shape) makes get_vacancies return a safe default and never raise,
\* also when the experience filter is active.
C17_MalformedAnswer ==
    (call.op = "get_vacancies" /\ call.raised # "pending") =>
        (call.raised = "none" /\ call.ret # None)

\* the item passes every check that is active for the search
PassesChecks(item, args) ==
    LET texts == {item.name, item.description}
                     \cup (IF item.snippet.kind = "object"
                           THEN {item.snippet.requirement, item.snippet.responsibility}
                           ELSE {})
        has_salary == item.salary.kind \in {"object", "empty"}
    IN  /\ \E t \in texts : t # None /\ CIContains(args.text, t[1])
        /\ (args.salary_from # None /\ has_salary) =>
              (item.salary.from # None /\ item.salary.from[1] >= args.salary_from[1])
        /\ (args.salary_to # None /\ has_salary) =>
              (item.salary.to # None /\ item.salary.to[1] <= args.salary_to[1])
        /\ args.experience # None =>
              (item.experience.kind = "object" /\ item.experience.id = args.experience)

\* C18: every item get_vacancies returns passes every active check: the text
\* is a case-insensitive substring of name, description, snippet.requirement
\* or snippet.responsibility; if salary_from was requested and the item has a
\* salary object, its from is present and >= salary_from; likewise its to is
\* present and <= salary_to; if experience was requested, its experience.id
\* equals it. Conversely no item passing all active checks is dropped before
\* the truncation to per_page.
C18_ActiveChecks ==
    (call.op = "get_vacancies" /\ call.raised = "none") =>
        LET args == call.args.args
            list == call.args.env.search.body.items.list
            ret == call.ret[1]
        IN  /\ \A i \in 1..Len(ret) : PassesChecks(ret[i], args)
            /\ Len(ret) < args.per_page =>
                  \A i \in 1..Len(list) :
                      PassesChecks(list[i], args) => \E j \in 1..Len(ret) : ret[j] = list[i]

\* C19: for every non-negative per_page get_vacancies returns at most
\* per_page items: the first per_page, in the order of the answer, of the
\* items that survived the checks.
C19_Truncation ==
    (call.op = "get_vacancies" /\ call.raised = "none") =>
        LET args == call.args.args
            list == call.args.env.search.body.items.list
            ret == call.ret[1]
            survivors == SelectSeq(list, LAMBDA v :
                             item_check(v, args.text, args.salary_from, args.salary_to,
                                        args.experience) = "keep")
        IN  /\ Len(ret) <= args.per_page
            /\ Len(ret) = (IF Len(survivors) < args.per_page THEN Len(survivors) ELSE args.per_page)
            /\ \A i \in 1..Len(ret) : ret[i] = survivors[i]

\* two different items survived and per_page = 1 left the first of them
C19_Witness ==
    /\ call.op = "get_vacancies" /\ call.raised = "none"
    /\ call.args.args.per_page = 1
    /\ Len(call.args.env.search.body.items.list) = 2
    /\ call.args.env.search.body.items.list[1].id = "i2"
    /\ call.args.env.search.body.items.list[2].id = "i1"
    /\ call.args.args.experience = None
    /\ call.ret = Some(<<call.args.env.search.body.items.list[1]>>)

----------------------------------------------------------------------------
(* The construction of a Salary: directly, and by Vacancy.__init__ *)

Currencies == {"RUR", "USD"}

SalaryKeys == {"from", "to", "currency", "gross"}

\* the mappings with some of the keys of a salary
SalaryDicts ==
    {[k \in keys |-> CASE k = "from" -> lo
                       [] k = "to" -> hi
                       [] k = "currency" -> currency
                       [] OTHER -> gross] :
        keys \in SUBSET SalaryKeys, lo \in OptionalAmounts, hi \in OptionalAmounts,
        currency \in Currencies, gross \in BOOLEAN}

\* what a Vacancy is given as its salary
SalaryArgs ==
    {[type |-> "None"]}
        \cup {[type |-> "dict", value |-> d] : d \in SalaryDicts}
        \cup {[type |-> "Salary", value |-> Salary(lo, hi, currency, gross)] :
                lo \in OptionalAmounts, hi \in OptionalAmounts,
                currency \in Currencies, gross \in BOOLEAN}

InitSalary ==
    /\ file = JsonFile(<<>>)
    /\ hist = NoHistory
    /\ api = HeadHunterAPI
    /\ \/ \E lo \in OptionalAmounts, hi \in OptionalAmounts, currency \in Currencies, gross \in BOOLEAN :
             call = Call("Salary",
                         [min_value |-> lo, max_value |-> hi, currency |-> currency, gross |-> gross],
                         "none", "none", "pending", None)
       \/ \E salary \in SalaryArgs :
             call = Call("Vacancy", [salary |-> salary], "none", "none", "pending", None)

SalaryStep ==
    /\ call.op = "Salary" /\ call.raised = "pending"
    /\ call' = [call EXCEPT !.raised = "none",
                            !.ret = Some(Salary(call.args.min_value, call.args.max_value,
                                                call.args.currency, call.args.gross))]
    /\ UNCHANGED <<file, hist, api>>

VacancyStep ==
    /\ call.op = "Vacancy" /\ call.raised = "pending"
    /\ call' = [call EXCEPT !.raised = "none",
                            !.ret = Some(Vacancy("a", <<>>, call.args.salary, <<>>, <<>>, <<>>,
                                                 <<>>, <<>>, <<>>, None, ConstructedAt))]
    /\ UNCHANGED <<file, hist, api>>

NextSalary == SalaryStep \/ VacancyStep

SpecSalary == InitSalary /\ [][NextSalary]_vars

\* the salary has the 0/0 sentinel bounds and the currency "RUR"
IsSentinel(s) == s.min_value = Some(0) /\ s.max_value = Some(0) /\ s.currency = "RUR"

----------------------------------------------------------------------------
(* Salary.__lt__ and Vacancy.__lt__ applied to every pair of salaries *)

AllSalaries ==
    {Salary(lo, hi, currency, gross) :
        lo \in OptionalAmounts, hi \in OptionalAmounts,
        currency \in Currencies, gross \in BOOLEAN}

InitLess ==
    /\ file = JsonFile(<<>>)
    /\ hist = NoHistory
    /\ api = HeadHunterAPI
    /\ \E a \in AllSalaries, b \in AllSalaries, op \in {"Salary.__lt__", "Vacancy.__lt__"} :
          call = Call(op,
                      IF op = "Salary.__lt__"
                      THEN [self |-> a, other |-> b]
                      ELSE [self |-> [id |-> 1, salary |-> a], other |-> [id |-> 2, salary |-> b]],
                      "none", "none", "pending", None)

SalaryLessStep ==
    /\ call.op = "Salary.__lt__" /\ call.raised = "pending"
    /\ call' = [call EXCEPT !.raised = "none",
                            !.ret = Some(Salary__lt__(call.args.self, call.args.other))]
    /\ UNCHANGED <<file, hist, api>>

VacancyLessStep ==
    /\ call.op = "Vacancy.__lt__" /\ call.raised = "pending"
    /\ call' = [call EXCEPT !.raised = "none",
                            !.ret = Some(Vacancy__lt__(call.args.self, call.args.other))]
    /\ UNCHANGED <<file, hist, api>>

NextLess == SalaryLessStep \/ VacancyLessStep

SpecLess == InitLess /\ [][NextLess]_vars

\* min_value is present and not 0
PresentNonZero(s) == s.min_value # None /\ s.min_value[1] # 0

\* C21: a < b is true if and only if a.min_value and b.min_value are both
\* present and not 0 and a.min_value < b.min_value; max_value, currency and
\* gross never affect the result; the relation is irreflexive and asymmetric;
\* the comparison of two vacancies is that of their salaries.
C21_LessThan ==
    (call.op \in {"Salary.__lt__", "Vacancy.__lt__"} /\ call.raised = "none") =>
        LET a == IF call.op = "Salary.__lt__" THEN call.args.self ELSE call.args.self.salary
            b == IF call.op = "Salary.__lt__" THEN call.args.other ELSE call.args.other.salary
        IN  /\ call.ret[1] <=>
                  /\ PresentNonZero(a) /\ PresentNonZero(b)
                  /\ a.min_value[1] < b.min_value[1]
            /\ a = b => ~call.ret[1]
            /\ call.ret[1] => ~Salary__lt__(b, a)
            /\ call.op = "Vacancy.__lt__" => call.ret[1] = Salary__lt__(a, b)

\* two vacancies compared as less although the max_value, the currency and
\* gross of their salaries point the other way or differ
C21_Witness ==
    /\ call.op = "Vacancy.__lt__" /\ call.raised = "none" /\ call.ret = Some(TRUE)
    /\ call.args.self.salary.max_value = Some(3)
    /\ call.args.other.salary.max_value = None
    /\ call.args.self.salary.currency # call.args.other.salary.currency
    /\ call.args.self.salary.gross # call.args.other.salary.gross

----------------------------------------------------------------------------
(* Salary.__str__ applied to every salary *)

\* a bound as an f-string writes it: the digits of a number, "None" for None
Formatted(o) == IF o = None THEN "None" ELSE ToString(o[1])

\* Salary.__str__: the words of the text ("not specified" for the Russian
\* "Зарплата не указана", "from" for "от", "to" for "до")
Salary__str__(self) ==
    IF self.min_value = Some(0) /\ self.max_value = Some(0)
    THEN <<"not specified">>
    ELSE IF Truthy(self.min_value) /\ Truthy(self.max_value)
    THEN <<"from", Formatted(self.min_value), "to", Formatted(self.max_value), self.currency>>
    ELSE IF Truthy(self.min_value)
    THEN <<"from", Formatted(self.min_value), self.currency>>
    ELSE <<"to", Formatted(self.max_value), self.currency>>

InitStr ==
    /\ file = JsonFile(<<>>)
    /\ hist = NoHistory
    /\ api = HeadHunterAPI
    /\ \E salary \in AllSalaries :
          call = Call("Salary.__str__", [self |-> salary], "none", "none", "pending", None)

StrStep ==
    /\ call.op = "Salary.__str__" /\ call.raised = "pending"
    /\ call' = [call EXCEPT !.raised = "none", !.ret = Some(Salary__str__(call.args.self))]
    /\ UNCHANGED <<file, hist, api>>

SpecStr == InitStr /\ [][StrStep]_vars

\* C22: the display string of a salary has one of four forms chosen by the
\* bounds that are present: "not specified" when both are the sentinel 0,
\* "from X to Y CUR" when both are present, "from X CUR" when only min_value
\* is, "to Y CUR" when only max_value is; X and Y are the integer bounds of
\* the salary, never an absent value.
C22_DisplayString ==
    (call.op = "Salary.__str__" /\ call.raised = "none") =>
        LET s == call.args.self
            text == call.ret[1]
        IN  text = IF s.min_value = Some(0) /\ s.max_value = Some(0)
                   THEN <<"not specified">>
                   ELSE IF s.min_value # None /\ s.max_value # None
                   THEN <<"from", ToString(s.min_value[1]), "to", ToString(s.max_value[1]), s.currency>>
                   ELSE IF s.min_value # None
                   THEN <<"from", ToString(s.min_value[1]), s.currency>>
                   ELSE <<"to", ToString(s.max_value[1]), s.currency>>

----------------------------------------------------------------------------
(* Vacancy.cast_to_object_list applied to lists of raw items *)

MaxRawLen == 2

\* data.get(key, {}).get(inner, ''): nested is [kind, value], kind "missing"
\* (no key), "null" or "object", value None for an object without the inner key
GetNested(nested, default) ==
    IF nested.kind = "missing" THEN [raised |-> "none", value |-> default]
    ELSE IF nested.kind = "null" THEN [raised |-> "AttributeError", value |-> default]
    ELSE [raised |-> "none", value |-> IF nested.value = None THEN default ELSE nested.value[1]]

\* datetime.fromisoformat(data.get('created_at', datetime.now().isoformat())
\* .replace("Z", "+00:00")): created_at is [kind, sec, tz], kind "missing"
\* (no key), "null", "iso" (an ISO-8601 text of the second sec with the
\* suffix tz) or "text" (any other text)
ParseCreatedAt(created_at, now) ==
    IF created_at.kind = "missing"
    THEN [raised |-> "none", value |-> fromisoformat(isoformat(now))]
    ELSE IF created_at.kind = "null"
    THEN [raised |-> "AttributeError", value |-> now]
    ELSE IF created_at.kind = "iso"
    THEN [raised |-> "none",
          value |-> [sec |-> created_at.sec, usec |-> 0,
                     tz |-> IF created_at.tz = "Z" THEN "+00:00" ELSE created_at.tz]]
    ELSE [raised |-> "ValueError", value |-> now]

\* one element of the list comprehension: [raised, value]; the arguments are
\* evaluated in the order they are written
cast_to_object(data, now) ==
    LET employer == GetNested(data.employer, "")
        snippet == GetNested(data.snippet, <<>>)
        experience == GetNested(data.experience, "")
        employment == GetNested(data.employment, "")
        created_at == ParseCreatedAt(data.created_at, now)
        raising == SelectSeq(<<employer, snippet, experience, employment, created_at>>,
                             LAMBDA r : r.raised # "none")
    IN  IF raising # <<>>
        THEN [raised |-> raising[1].raised, value |-> None]
        ELSE [raised |-> "none",
              value |-> Some(Vacancy(IF data.id = None THEN "" ELSE data.id[1],
                                     IF data.name = None THEN <<>> ELSE data.name[1],
                                     data.salary,
                                     IF data.description = None THEN <<>> ELSE data.description[1],
                                     employer.value,
                                     IF data.alternate_url = None THEN "" ELSE data.alternate_url[1],
                                     snippet.value, experience.value, employment.value,
                                     Some(created_at.value), now))]

\* Vacancy.cast_to_object_list: [raised, ret]
cast_to_object_list(vacancies_data, now) ==
    LET cast == [i \in 1..Len(vacancies_data) |-> cast_to_object(vacancies_data[i], now)]
        raising == {i \in 1..Len(cast) : cast[i].raised # "none"}
        first == CHOOSE i \in raising : \A j \in raising : i <= j
    IN  IF raising # {}
        THEN [raised |-> cast[first].raised, ret |-> None]
        ELSE [raised |-> "none", ret |-> Some([i \in 1..Len(cast) |-> cast[i].value[1]])]

Nested(kind, value) == [kind |-> kind, value |-> value]

CreatedAt(kind, sec, tz) == [kind |-> kind, sec |-> sec, tz |-> tz]

RawItem(id, name, salary, employer, snippet, experience, employment, created_at) ==
    [id |-> id, name |-> name, salary |-> salary, description |-> None,
     employer |-> employer, alternate_url |-> None, snippet |-> snippet,
     experience |-> experience, employment |-> employment, created_at |-> created_at]

NestedNames == {Nested("missing", None), Nested("null", None), Nested("object", Some("n"))}

NestedRequirements ==
    {Nested("missing", None), Nested("null", None), Nested("object", Some(<<"a">>)),
     Nested("object", None)}

RawCreatedAt ==
    {CreatedAt("missing", 0, ""), CreatedAt("null", 0, ""), CreatedAt("text", 0, ""),
     CreatedAt("iso", 5, "Z"), CreatedAt("iso", 5, "+00:00")}

RawSalaries == {[type |-> "None"], [type |-> "dict", value |-> [from |-> Some(1), to |-> None]]}

RawItems ==
    {RawItem(id, name, salary, employer, snippet, experience, employment, created_at) :
        id \in {None, Some("a")}, name \in {None, Some(<<"b">>)}, salary \in RawSalaries,
        employer \in NestedNames, snippet \in NestedRequirements,
        experience \in NestedNames, employment \in NestedNames, created_at \in RawCreatedAt}

\* a complete item, one with no key at all, and one whose date is not a date
SampleRaw ==
    {RawItem(Some("a"), Some(<<"b">>), [type |-> "None"], Nested("object", Some("n")),
             Nested("object", Some(<<"a">>)), Nested("object", Some("n")),
             Nested("object", Some("n")), CreatedAt("iso", 5, "Z")),
     RawItem(None, None, [type |-> "None"], Nested("missing", None), Nested("missing", None),
             Nested("missing", None), Nested("missing", None), CreatedAt("missing", 0, "")),
     RawItem(Some("b"), Some(<<"b">>), [type |-> "None"], Nested("missing", None),
             Nested("missing", None), Nested("missing", None), Nested("missing", None),
             CreatedAt("text", 0, ""))}

RECURSIVE RawLists(_)
RawLists(n) ==
    IF n = 0 THEN {<<>>}
    ELSE LET shorter == RawLists(n - 1)
         IN  shorter \cup {Append(l, v) : l \in {t \in shorter : Len(t) = n - 1}, v \in SampleRaw}

InitCast ==
    /\ file = JsonFile(<<>>)
    /\ hist = NoHistory
    /\ api = HeadHunterAPI
    /\ \E vacancies_data \in RawLists(MaxRawLen) \cup {<<v>> : v \in RawItems} :
          call = Call("cast_to_object_list", [vacancies_data |-> vacancies_data, now |-> ReadAt],
                      "none", "none", "pending", None)

CastStep ==
    /\ call.op = "cast_to_object_list" /\ call.raised = "pending"
    /\ LET r == cast_to_object_list(call.args.vacancies_data, call.args.now)
       IN  call' = [call EXCEPT !.raised = r.raised, !.ret = r.ret]
    /\ UNCHANGED <<file, hist, api>>

SpecCast == InitCast /\ [][CastStep]_vars

\* C23: cast_to_object_list returns one Vacancy per raw item, in input
\* order, and never raises: a missing scalar or a missing nested object
\* (employer, snippet, experience, employment) yields an empty string, and
\* created_at is the construction time when the raw created_at is absent or
\* cannot be parsed as ISO-8601 (a trailing Z being accepted as +00:00).
C23_CastNeverRaises ==
    (call.op = "cast_to_object_list" /\ call.raised # "pending") =>
        LET data == call.args.vacancies_data
        IN  /\ call.raised = "none"
            /\ Len(call.ret[1]) = Len(data)
            /\ \A i \in 1..Len(data) :
                  LET v == call.ret[1][i]
                      d == data[i]
                  IN  /\ v.id = (IF d.id = None THEN "" ELSE d.id[1])
                      /\ d.name = None => v.title = <<>>
                      /\ d.employer.kind = "missing" => v.company_name = ""
                      /\ d.snippet.kind = "missing" => v.requirements = <<>>
                      /\ d.experience.kind = "missing" => v.experience = ""
                      /\ d.employment.kind = "missing" => v.employment = ""
                      /\ d.created_at.kind # "iso" => v.created_at = call.args.now
                      /\ d.created_at.kind = "iso" =>
                            (v.created_at.sec = d.created_at.sec /\ v.created_at.tz = "+00:00")

----------------------------------------------------------------------------
(* The requests a call of the client sends *)

\* C24: each get_vacancies call issues exactly one HTTP GET request,
\* whatever combination of optional arguments (a free-text location without
\* an explicit area id included) is supplied.
C24_OneGetPerSearch ==
    call.op = "get_vacancies" => Len(call.sent) = 1

\* C25: every HTTP request the client issues (the connect probe, the
\* vacancy search, the area lookup and the vacancy-details lookup) is sent
\* with the same configured per-request timeout value.
C25_UniformTimeout ==
    call.op \in {"connect", "get_vacancies", "get_vacancy_details"} =>
        \A i \in 1..Len(call.sent) : call.sent[i].timeout = Some(config_timeout)

----------------------------------------------------------------------------
(* The time of the last request *)

\* the search request of a get_vacancies call, or the request of a
\* get_vacancy_details call, was sent and answered with a success status
OwnRequestSucceeded(c) ==
    \/ c.op = "get_vacancy_details" /\ ~TransportFailure(c.args.outcome)
    \/ /\ c.op = "get_vacancies"
       /\ \E i \in 1..Len(c.sent) : c.sent[i].path = "/vacancies"
       /\ ~TransportFailure(c.args.env.search)

\* some request of the call was answered with a success status: the probe
\* of connect() and the area lookup of get_vacancies counted as well
SomeRequestSucceeded(c) ==
    \/ OwnRequestSucceeded(c)
    \/ c.op = "connect" /\ ~TransportFailure(c.args.outcome)
    \/ /\ c.op = "get_vacancies"
       /\ \E i \in 1..Len(c.sent) : c.sent[i].path = "/areas"
       /\ ~TransportFailure(c.args.env.areas)

\* the value of datetime.now() during the call
CallTime(c) == IF c.op = "get_vacancies" THEN c.args.env.now ELSE c.args.now

NonDecreasing ==
    api.last_request_time # None =>
        (api'.last_request_time # None /\ api'.last_request_time[1] >= api.last_request_time[1])

----------------------------------------------------------------------------
(* get_vacancies over answers of /areas that list regions and cities *)

MaxRegions == 2

RegionNames == {<<"A">>, <<"b", "a">>}

CityNames == {<<"B">>, <<"c">>}

\* the cities the i-th region may have: none or one; ids tell the places apart
CityLists(i) == {<<>>} \cup {<<[name |-> Some(n), id |-> 10 * i + 1]>> : n \in CityNames}

RECURSIVE RegionLists(_)
RegionLists(n) ==
    IF n = 0 THEN {<<>>}
    ELSE LET shorter == RegionLists(n - 1)
         IN  shorter \cup
             {Append(l, [name |-> Some(name), id |-> 10 * n, areas |-> cities]) :
                 l \in {t \in shorter : Len(t) = n - 1},
                 name \in RegionNames, cities \in CityLists(n)}

AreaAnswers ==
    {Outcome("Timeout", 0, "requests.JSONDecodeError", [shape |-> "array", areas |-> <<>>]),
     Outcome("none", 500, "requests.JSONDecodeError", [shape |-> "array", areas |-> <<>>])}
        \cup {Outcome("none", 200, "requests.JSONDecodeError", [shape |-> "array", areas |-> l]) :
                 l \in RegionLists(MaxRegions)}

AreaSearches ==
    {SearchArgs(<<"a">>, location, None, None, None, area, 100, 0) :
        location \in {None, Some(<<>>), Some(<<"b">>), Some(<<"A">>), Some(<<"c">>)},
        area \in {None, Some(0), Some(7)}}

InitArea ==
    /\ file = JsonFile(<<>>)
    /\ hist = NoHistory
    /\ api = HeadHunterAPI
    /\ \E args \in AreaSearches, areas \in AreaAnswers :
          call = ApiCall("get_vacancies",
                         [args |-> args,
                          env |-> [areas |-> areas,
                                   search |-> Outcome("none", 200, "requests.JSONDecodeError", FoundBody),
                                   now |-> 1]],
                         "pending", None, <<>>)

SpecArea == InitArea /\ [][SearchPending]_vars

\* the places of an answer of /areas: <<i, 0>> the i-th region, <<i, j>> its
\* j-th city; a place comes before another when its region comes first, and
\* within one region the region itself before its cities in their order
Places(regions) ==
    {<<i, 0>> : i \in 1..Len(regions)}
        \cup UNION {{<<i, j>> : j \in 1..Len(regions[i].areas)} : i \in 1..Len(regions)}

PlaceBefore(p, q) == p[1] < q[1] \/ (p[1] = q[1] /\ p[2] < q[2])

PlaceAt(regions, p) == IF p[2] = 0 THEN regions[p[1]] ELSE regions[p[1]].areas[p[2]]

\* the area id the search is to carry after a lookup of the location
ResolvedArea(location, answer) ==
    LET regions == answer.body.areas
        found == {p \in Places(regions) : CIContains(location, PlaceAt(regions, p).name[1])}
        first == CHOOSE p \in found : \A q \in found \ {p} : PlaceBefore(p, q)
    IN  IF TransportFailure(answer) \/ found = {} THEN None
        ELSE Some(PlaceAt(regions, first).id)

\* C27: an explicitly given area id is used as-is and no lookup is made;
\* otherwise, for a non-empty location, regions are scanned in response
\* order, each region's name is checked and then that region's direct
\* cities, and the id of the first name containing the location
\* (case-insensitive) is used; when nothing matches or the lookup request
\* fails, the search is issued without an area parameter.
C27_AreaResolution ==
    (call.op = "get_vacancies" /\ call.raised # "pending") =>
        LET a == call.args.args
            search == call.sent[Len(call.sent)]
        IN  /\ call.raised = "none"
            /\ search.path = "/vacancies"
            /\ a.area # None => (Len(call.sent) = 1 /\ search.params.area = a.area)
            /\ (a.area = None /\ a.location # None /\ a.location[1] # <<>>) =>
                  /\ Len(call.sent) = 2 /\ call.sent[1].path = "/areas"
                  /\ search.params.area = ResolvedArea(a.location[1], call.args.env.areas)
            /\ (a.area = None /\ (a.location = None \/ a.location[1] = <<>>)) =>
                  (Len(call.sent) = 1 /\ search.params.area = None)

\* the location matches a city of the first region and the second region:
\* the city is taken
C27_Witness ==
    /\ call.op = "get_vacancies" /\ call.raised = "none"
    /\ call.args.args.area = None /\ call.args.args.location = Some(<<"b">>)
    /\ LET regions == call.args.env.areas.body.areas
       IN  /\ ~TransportFailure(call.args.env.areas)
           /\ Len(regions) = 2
           /\ regions[1].name = Some(<<"A">>) /\ regions[2].name = Some(<<"b", "a">>)
           /\ regions[1].areas # <<>> /\ regions[1].areas[1].name = Some(<<"B">>)
    /\ call.sent[2].params.area = Some(11)

----------------------------------------------------------------------------
(* Two callers of add_vacancy on one file: the read of the file and the
   write of the file are separate steps, and nothing locks the file between
   them. call.writer[p] is the position of the writer p in add_vacancy: its
   pc ("start", "read", "done"), the vacancy it adds, the list _read_file
   gave it and what its call raised; call.events lists the reads and writes
   in the order they happened; call.initial is the file before both. *)

Writers == {1, 2}

InitialFiles ==
    {JsonFile(<<>>)} \cup {JsonFile(<<vacancy_dict(v)>>) : v \in {x \in FaultVacancies : x.id = "a"}}

InitWriters ==
    /\ hist = NoHistory
    /\ api = HeadHunterAPI
    /\ file \in InitialFiles
    /\ \E vacancy \in [Writers -> FaultVacancies] :
          call = [op |-> "add_vacancy", raised |-> "none", initial |-> file, events |-> <<>>,
                  writer |-> [p \in Writers |->
                                 [pc |-> "start", vacancy |-> vacancy[p], vacancies |-> <<>>,
                                  read_io |-> "none", write_io |-> "none", raised |-> "none"]]]

\* Mutant: the write step reads the file again before it writes.
WriterWrite_rereads(p) ==
    LET me == call.writer[p]
        r == _read_file(file, "ok")
        w == _write_file(file, AddOrUpdate(r.data, vacancy_dict(me.vacancy)), "ok")
    IN  /\ me.pc = "read"
        /\ file' = w.file
        /\ call' = [call EXCEPT !.events = Append(@, <<p, "write">>),
                                !.writer[p].pc = "done",
                                !.writer[p].write_io = "ok"]
        /\ UNCHANGED <<hist, api>>

\* vacancies = self._read_file()
WriterRead(p) ==
    \E rio \in ReadIO :
        LET r == _read_file(file, rio)
        IN  /\ call.writer[p].pc = "start"
            /\ call' = [call EXCEPT !.events = Append(@, <<p, "read">>),
                                    !.writer[p].pc = IF r.raised = "none" THEN "read" ELSE "done",
                                    !.writer[p].vacancies = r.data,
                                    !.writer[p].read_io = rio,
                                    !.writer[p].raised = r.raised]
            /\ UNCHANGED <<file, hist, api>>

\* the rest of add_vacancy: the list is updated and self._write_file(vacancies)
WriterWrite(p) ==
    \E wio \in WriteIO :
        LET me == call.writer[p]
            w == _write_file(file, AddOrUpdate(me.vacancies, vacancy_dict(me.vacancy)), wio)
        IN  /\ me.pc = "read"
            /\ file' = w.file
            /\ call' = [call EXCEPT !.events = Append(@, <<p, "write">>),
                                    !.writer[p].pc = "done",
                                    !.writer[p].write_io = wio,
                                    !.writer[p].raised = w.raised]
            /\ UNCHANGED <<hist, api>>

ReadStep == \E p \in Writers : WriterRead(p)

WriteStep == \E p \in Writers : WriterWrite(p)

NextWriters == ReadStep \/ WriteStep

SpecWriters == InitWriters /\ [][NextWriters]_vars

\* both writers are through, each read the file and wrote it as asked
BothWrote ==
    /\ \A p \in Writers : call.writer[p].pc = "done" /\ call.writer[p].write_io = "ok"
    /\ Len(call.events) = 4

\* both writers read the file before either wrote it
BothReadFirst == BothWrote /\ call.events[1][2] = "read" /\ call.events[2][2] = "read"

\* one writer was through before the other began, and every read went well
OneAfterTheOther ==
    /\ BothWrote /\ call.events[1][2] = "read" /\ call.events[2][2] = "write"
    /\ \A p \in Writers : call.writer[p].read_io = "ok"

\* the record the writer of the k-th event adds
RecordOf(k) == vacancy_dict(call.writer[call.events[k][1]].vacancy)

Holds(data, d) == \E i \in 1..Len(data) : data[i] = d

\* C28: add_vacancy is a non-atomic read followed by a write: when two
\* writers both read the file before either writes, the record of the first
\* writer is absent from the final file (the lost update is reachable),
\* while for one caller after the other every successful add_vacancy is
\* visible to the next read of the file.
C28_LostUpdate ==
    /\ BothReadFirst =>
          /\ file.kind = "json" /\ Holds(file.data, RecordOf(4))
          /\ (RecordOf(3).id # RecordOf(4).id /\ ~Holds(call.initial.data, RecordOf(3)))
                => ~Holds(file.data, RecordOf(3))
    /\ OneAfterTheOther =>
          /\ file = JsonFile(AddOrUpdate(AddOrUpdate(call.initial.data, RecordOf(2)), RecordOf(4)))
          /\ Holds(_read_file(file, "ok").data, RecordOf(4))
          /\ RecordOf(2).id # RecordOf(4).id => Holds(_read_file(file, "ok").data, RecordOf(2))

\* the lost update: both read, both wrote, and the file lacks the record of
\* the writer that wrote first
C28_Witness ==
    /\ BothReadFirst
    /\ RecordOf(3).id # RecordOf(4).id
    /\ ~Holds(file.data, RecordOf(3)) /\ Holds(file.data, RecordOf(4))
    /\ \A p \in Writers : call.writer[p].read_io = "ok"

----------------------------------------------------------------------------
(* Instances of JSONVacancyStorage made one after another on one path. The
   object keeps nothing but the path, so an instance is told from the one
   before it only by its construction; hist.last keeps the last construction
   or write. *)

AbsentFile == [kind |-> "absent", data |-> <<>>]

\* Mutant: the constructor writes the empty array whether the file exists or not.
JSONVacancyStorage__init___always_writes(wio) ==
    LET w == _write_file(file, <<>>, wio)
    IN  /\ file' = w.file
        /\ call' = Call("__init__", <<>>, "none", wio, w.raised, None)
        /\ hist' = [hist EXCEPT !.last = [op |-> "__init__", id |-> "none",
                                          effect |-> IF file.kind = "absent"
                                                     THEN "created" ELSE "kept"]]
        /\ UNCHANGED api

\* JSONVacancyStorage.__init__
JSONVacancyStorage__init__(wio) ==
    LET w == _write_file(file, <<>>, wio)
    IN  /\ IF file.kind = "absent"
           THEN /\ file' = w.file
                /\ call' = Call("__init__", <<>>, "none", wio, w.raised, None)
           ELSE /\ file' = file
                /\ call' = Call("__init__", <<>>, "none", "none", "none", None)
        /\ hist' = [hist EXCEPT !.last = [op |-> "__init__", id |-> "none",
                                          effect |-> IF file.kind = "absent"
                                                     THEN "created" ELSE "kept"]]
        /\ UNCHANGED api

InitInstances ==
    /\ file = AbsentFile
    /\ call = Call("none", <<>>, "none", "none", "none", None)
    /\ hist = NoHistory
    /\ api = HeadHunterAPI

ConstructStep == \E wio \in WriteIO : JSONVacancyStorage__init__(wio)

AddToInstance == call.op # "none" /\ AddStep

GetFromInstance == call.op # "none" /\ GetStep

NextInstances == ConstructStep \/ AddToInstance \/ GetFromInstance

SpecInstances == InitInstances /\ [][NextInstances]_vars

\* C29: constructing a JSONVacancyStorage writes an empty array only when
\* the file does not exist; constructing over an existing file leaves its
\* records unchanged, so records added through one instance are returned by
\* get_vacancies of a later instance on the same path.
C29_ConstructorKeepsFile ==
    /\ [][call'.op = "__init__" =>
             IF file.kind = "absent"
             THEN file' \in {_write_file(file, <<>>, wio).file : wio \in WriteIO}
             ELSE file' = file]_vars
    /\ []((call.op = "get_vacancies" /\ call.args.keyword = None /\ hist.last.op = "__init__") =>
             /\ call.raised = "none"
             /\ [i \in 1..Len(call.ret[1]) |-> call.ret[1][i].id] = hist.order
             /\ \A i \in 1..Len(call.ret[1]) :
                   call.ret[1][i] = hist.latest[call.ret[1][i].id][1])

\* an instance made over a file of two records has returned both
C29_Witness ==
    /\ call.op = "get_vacancies" /\ call.args.keyword = None
    /\ hist.last.op = "__init__" /\ hist.last.effect = "kept"
    /\ Len(call.ret[1]) = 2

----------------------------------------------------------------------------
(* add_vacancy and remove_vacancy under failing reads and writes, with the
   file each call found kept in hist.last.effect *)

FileBefore(h, op, f) == [h EXCEPT !.last = [op |-> op, id |-> "none", effect |-> f]]

AddRecorded ==
    \E v \in FaultVacancies, rio \in ReadIO, wio \in WriteIO :
        add_vacancy(v, rio, wio) /\ hist' = FileBefore(hist, "add_vacancy", file) /\ UNCHANGED api

RemoveRecorded ==
    \E id \in Ids, rio \in ReadIO, wio \in WriteIO :
        /\ remove_vacancy(id, rio, wio)
        /\ hist' = FileBefore(hist, "remove_vacancy", file)
        /\ UNCHANGED api

NextOverwrite == AddRecorded \/ RemoveRecorded

SpecOverwrite == Init /\ [][NextOverwrite]_vars

\* the read step of the last call failed, and its write step was made and
\* went well
ReadFailedWriteDone ==
    /\ call.op \in {"add_vacancy", "remove_vacancy"}
    /\ ReadAttempt(hist.last.effect, call.read_io).raised # "none"
    /\ call.write_io = "ok"

\* C30: an add_vacancy or remove_vacancy call whose read step fails
\* (corrupt JSON or I/O error) and whose write step succeeds overwrites the
\* file: after add_vacancy the file holds exactly the one new record, after
\* remove_vacancy it holds an empty array, and all previously stored records
\* are lost.
C30_FailedReadOverwrites ==
    ReadFailedWriteDone =>
        /\ call.raised = "none"
        /\ call.op = "add_vacancy" => file = JsonFile(<<vacancy_dict(call.args.vacancy)>>)
        /\ call.op = "remove_vacancy" => file = JsonFile(<<>>)

\* an add_vacancy that could not read a file of two records has left one
C30_Witness ==
    /\ ReadFailedWriteDone /\ call.op = "add_vacancy" /\ call.read_io = "OSError"
    /\ hist.last.effect.kind = "json" /\ Len(hist.last.effect.data) = 2
    /\ Len(file.data) = 1

====
